---- MODULE Spec2Model ----
(***************************************************************************)
(* Vehicle-Registration-Dashboard: the generator, the growth derivation    *)
(* and the batch run of data_scraper.py (VehicleDataScraper) and the query *)
(* layer of database_utils.py (DatabaseManager), as a state machine.       *)
(*                                                                         *)
(* A DataFrame is a sequence of rows (records).  Text values that SQLite   *)
(* compares (dates, names) are sequences of character codes, compared as   *)
(* SQLite's BINARY collation and Python's str ordering compare them.       *)
(* A float that may be NaN or inf is a record [k, v]: k is "nan", "inf",   *)
(* "null" (SQL NULL) or "num"; for "num", v is the value in hundredths.    *)
(***************************************************************************)
EXTENDS Integers, Sequences, FiniteSets, TLC

VARIABLES df, store, catalog, pc, query, result, runs, loop, previous, kept

vars == <<df, store, catalog, pc, query, result, runs, loop, previous, kept>>

(***************************************************************************)
(* Bounds of the explored inputs.                                          *)
(***************************************************************************)
\* longest (vehicle_category, manufacturer) series handed to calculate_growth_metrics
MaxLen == 14
\* the missing month of a series comes after at most this many rows
MaxGap == 3
\* the row of a series that differs from the others is one of the first MaxSpecial
MaxSpecial == 2
\* longest series of the frames that are saved and queried
MaxQLen == 13

\* the runs of scrape_and_process_data that are started
MaxRuns == 2

\* the random factors tried include the multiples of 2^-MaxNoiseBits in the band
MaxNoiseBits == 2

(***************************************************************************)
(* Program constants.                                                      *)
(***************************************************************************)
YoyLag == 12
QoqLag == 3
MinVolume == 1000
LeadersLimit == 10
StartYear == 2020

(***************************************************************************)
(* Text: sequences of character codes.                                     *)
(***************************************************************************)
RECURSIVE TextLessFrom(_, _, _)
\* a < b, for a and b that agree before position i
TextLessFrom(a, b, i) ==
    IF i > Len(a) THEN i <= Len(b)
    ELSE IF i > Len(b) THEN FALSE
    ELSE IF a[i] = b[i] THEN TextLessFrom(a, b, i + 1)
    ELSE a[i] < b[i]

\* memcmp order, a proper prefix sorting first
TextLess(a, b) == TextLessFrom(a, b, 1)

TextLE(a, b) == a = b \/ TextLess(a, b)

\* the names the rosters use, as text
NameText(s) ==
    CASE s = "2W" -> <<50, 87>>
      [] s = "3W" -> <<51, 87>>
      [] s = "4W" -> <<52, 87>>
      [] s = "Hero MotoCorp" -> <<72, 101, 114, 111, 32, 77, 111, 116, 111, 67, 111, 114, 112>>
      [] s = "Honda" -> <<72, 111, 110, 100, 97>>
      [] s = "TVS" -> <<84, 86, 83>>
      [] s = "Bajaj" -> <<66, 97, 106, 97, 106>>
      [] s = "Yamaha" -> <<89, 97, 109, 97, 104, 97>>
      [] s = "Royal Enfield" -> <<82, 111, 121, 97, 108, 32, 69, 110, 102, 105, 101, 108, 100>>
      [] s = "Mahindra" -> <<77, 97, 104, 105, 110, 100, 114, 97>>
      [] s = "Piaggio" -> <<80, 105, 97, 103, 103, 105, 111>>
      [] s = "Atul Auto" -> <<65, 116, 117, 108, 32, 65, 117, 116, 111>>
      [] s = "Maruti Suzuki" -> <<77, 97, 114, 117, 116, 105, 32, 83, 117, 122, 117, 107, 105>>
      [] s = "Hyundai" -> <<72, 121, 117, 110, 100, 97, 105>>
      [] s = "Tata" -> <<84, 97, 116, 97>>
      [] s = "Kia" -> <<75, 105, 97>>
      [] s = "Toyota" -> <<84, 111, 121, 111, 116, 97>>
      [] s = "MG Motor" -> <<77, 71, 32, 77, 111, 116, 111, 114>>

NameLess(a, b) == TextLess(NameText(a), NameText(b))

\* n as w decimal digits, zero padded
Pow10(w) == CASE w = 0 -> 1 [] w = 1 -> 10 [] w = 2 -> 100 [] w = 3 -> 1000

Digits(n, w) == [i \in 1..w |-> 48 + ((n \div Pow10(w - i)) % 10)]

(***************************************************************************)
(* Dates.  A datetime is [y, m, d] (the time of day of a query bound is    *)
(* dropped by strftime('%Y-%m-%d'); generated timestamps are at 00:00:00). *)
(***************************************************************************)
IsLeap(y) == (y % 4 = 0 /\ y % 100 # 0) \/ y % 400 = 0

DaysInMonth(y, m) ==
    IF m = 2 THEN (IF IsLeap(y) THEN 29 ELSE 28)
    ELSE IF m \in {4, 6, 9, 11} THEN 30 ELSE 31

\* the k-th element (k = 0, 1, ...) of pd.date_range(2020-01-01, .., freq='M')
MonthEnd(k) ==
    LET y == StartYear + (k \div 12)
        m == (k % 12) + 1
    IN [y |-> y, m |-> m, d |-> DaysInMonth(y, m)]

\* f"Q{((month-1)//3)+1}"
Quarter(month) ==
    CASE (month - 1) \div 3 = 0 -> "Q1"
      [] (month - 1) \div 3 = 1 -> "Q2"
      [] (month - 1) \div 3 = 2 -> "Q3"
      [] (month - 1) \div 3 = 3 -> "Q4"

\* months since January of StartYear
MonthIndex(dt) == (dt.y - StartYear) * 12 + (dt.m - 1)

DateLess(a, b) ==
    \/ a.y < b.y
    \/ a.y = b.y /\ a.m < b.m
    \/ a.y = b.y /\ a.m = b.m /\ a.d < b.d

\* the day before dt
PrevDay(dt) ==
    IF dt.d > 1 THEN [y |-> dt.y, m |-> dt.m, d |-> dt.d - 1]
    ELSE IF dt.m > 1 THEN [y |-> dt.y, m |-> dt.m - 1, d |-> DaysInMonth(dt.y, dt.m - 1)]
    ELSE [y |-> dt.y - 1, m |-> 12, d |-> 31]

RECURSIVE DaysBefore(_, _)
\* dt - timedelta(days=n)
DaysBefore(dt, n) ==
    IF n < dt.d THEN [dt EXCEPT !.d = dt.d - n]
    ELSE DaysBefore(PrevDay([dt EXCEPT !.d = 1]), n - dt.d)

\* pd.to_datetime of a stored 'YYYY-MM-DD 00:00:00' text
to_datetime(t) ==
    [y |-> (t[1] - 48) * 1000 + (t[2] - 48) * 100 + (t[3] - 48) * 10 + (t[4] - 48),
     m |-> (t[6] - 48) * 10 + (t[7] - 48),
     d |-> (t[9] - 48) * 10 + (t[10] - 48)]

\* the number of decimal digits of a year of datetime (1 .. 9999)
Width(year) == IF year < 10 THEN 1 ELSE IF year < 100 THEN 2 ELSE IF year < 1000 THEN 3 ELSE 4

\* datetime.strftime('%Y-%m-%d'): '%Y' of the C library (glibc) does not pad the
\* year, so datetime(999, 12, 31) gives '999-12-31'
strftime(dt) ==
    Digits(dt.y, Width(dt.y)) \o <<45>> \o Digits(dt.m, 2) \o <<45>> \o Digits(dt.d, 2)

\* the text sqlite3 stores for a midnight Timestamp (its isoformat, whose year
\* has four digits): 'YYYY-MM-DD 00:00:00'
TimestampText(dt) ==
    Digits(dt.y, 4) \o <<45>> \o Digits(dt.m, 2) \o <<45>> \o Digits(dt.d, 2)
      \o <<32, 48, 48, 58, 48, 48, 58, 48, 48>>

(***************************************************************************)
(* Floats.                                                                 *)
(***************************************************************************)
NaN == [k |-> "nan", v |-> 0]
Inf == [k |-> "inf", v |-> 0]
Null == [k |-> "null", v |-> 0]
Num(x) == [k |-> "num", v |-> x]

\* num/den (num >= 0, den > 0) rounded to the nearest integer, ties away from zero (SQLite ROUND)
RoundHalfUp(num, den) == (2 * num + den) \div (2 * den)

(***************************************************************************)
(* IEEE-754 doubles, as the Python floats of generate_synthetic_data, the  *)
(* float64 columns of calculate_growth_metrics and the REAL values of      *)
(* SQLite.  A double is m * 2^e with m below 2^53; m is held in limbs of   *)
(* 12 bits, least significant first.  A signed double has a field neg      *)
(* besides; the sign of a zero is not kept (0.0 = -0.0).                   *)
(***************************************************************************)
Limb == 2^12

Limbs == 1..10

\* a function over 1..n as a tuple
AsSeq(f) == f \o <<>>

\* a natural number below 2^31 as limbs
FromInt(n) ==
    AsSeq([i \in Limbs |->
             IF i = 1 THEN n % Limb
             ELSE IF i = 2 THEN (n \div Limb) % Limb
             ELSE IF i = 3 THEN n \div (Limb * Limb)
             ELSE 0])

\* the number a, which is below 2^31
ToInt(a) == a[1] + a[2] * Limb + a[3] * Limb * Limb

RECURSIVE Carry(_, _, _)
\* the limbs of the number whose i-th column is cols[i]
Carry(cols, i, c) ==
    IF i \notin Limbs THEN <<>>
    ELSE <<(cols[i] + c) % Limb>> \o Carry(cols, i + 1, (cols[i] + c) \div Limb)

RECURSIVE SumProducts(_, _, _, _)
\* a[i] * b[k + 1 - i] + a[i + 1] * b[k - i] + ... + a[k] * b[1]
SumProducts(a, b, k, i) ==
    IF i > k THEN 0
    ELSE (IF i <= 5 /\ k + 1 - i <= 5 THEN a[i] * b[k + 1 - i] ELSE 0)
         + SumProducts(a, b, k, i + 1)

\* a * b, for a and b below 2^60
MulNat(a, b) == Carry([k \in Limbs |-> SumProducts(a, b, k, 1)], 1, 0)

\* a + 1
Inc(a) == Carry([i \in Limbs |-> IF i = 1 THEN a[1] + 1 ELSE a[i]], 1, 0)

\* a + b
AddNat(a, b) == Carry([i \in Limbs |-> a[i] + b[i]], 1, 0)

RECURSIVE Borrow(_, _, _, _)
\* the limbs i, i + 1, ... of a - b - c
Borrow(a, b, i, c) ==
    IF i \notin Limbs THEN <<>>
    ELSE LET d == a[i] - b[i] - c
         IN <<IF d < 0 THEN d + Limb ELSE d>> \o Borrow(a, b, i + 1, IF d < 0 THEN 1 ELSE 0)

\* a - b, for a >= b
SubNat(a, b) == Borrow(a, b, 1, 0)

IsZero(a) == \A i \in Limbs : a[i] = 0

\* the number of bits of a
BitLen(a) ==
    IF IsZero(a) THEN 0
    ELSE LET t == CHOOSE i \in Limbs : a[i] # 0 /\ \A j \in Limbs : j > i => a[j] = 0
         IN 12 * (t - 1) + Cardinality({n \in 0..11 : 2^n <= a[t]})

\* bit n of a (bit 0 is the lowest)
Bit(a, n) == (a[(n \div 12) + 1] \div 2^(n % 12)) % 2

\* a \div 2^s
ShiftRight(a, s) ==
    LET q == s \div 12
        r == s % 12
        At(i) == IF i \in Limbs THEN a[i] ELSE 0
    IN AsSeq([i \in Limbs |-> (At(i + q) \div 2^r) + (At(i + q + 1) % 2^r) * 2^(12 - r)])

\* a * 2^s, which is below 2^120
ShiftLeft(a, s) ==
    LET q == s \div 12
        r == s % 12
        At(i) == IF i \in Limbs THEN a[i] ELSE 0
    IN AsSeq([i \in Limbs |-> ((At(i - q) * 2^r) % Limb) + (At(i - q - 1) \div 2^(12 - r))])

\* a % 2^s = 0
LowBitsZero(a, s) ==
    /\ \A i \in 1..(s \div 12) : a[i] = 0
    /\ a[(s \div 12) + 1] % 2^(s % 12) = 0

\* a <= b
LessEqNat(a, b) ==
    \/ a = b
    \/ \E i \in Limbs : a[i] < b[i] /\ \A j \in Limbs : j > i => a[j] = b[j]

RECURSIVE DivLimbs(_, _, _, _)
\* the limbs 1 .. i of (r * 2^(12 * i) + a % 2^(12 * i)) \div n and the
\* remainder, for 0 <= r < n < 2^25; a limb is divided as two halves of 6 bits
DivLimbs(a, n, i, r) ==
    IF i = 0 THEN [q |-> <<>>, r |-> r]
    ELSE LET hi == r * 64 + (a[i] \div 64)
             lo == (hi % n) * 64 + (a[i] % 64)
             rest == DivLimbs(a, n, i - 1, lo % n)
         IN [q |-> Append(rest.q, (hi \div n) * 64 + (lo \div n)), r |-> rest.r]

\* the double nearest to m * 2^e: 53 bits are kept, a tie goes to the even
RoundToDouble(m, e) ==
    LET \* q is m without its s lowest bits
        Rounded(s, q) ==
            IF Bit(m, s - 1) = 1 /\ (~LowBitsZero(m, s - 1) \/ q[1] % 2 = 1)
            THEN Inc(q) ELSE q
        \* m has s bits more than 53
        Kept(s) ==
            IF s <= 0 THEN [m |-> m, e |-> e]
            ELSE [m |-> Rounded(s, ShiftRight(m, s)), e |-> e + s]
    IN Kept(BitLen(m) - 53)

\* the same double with m in [2^52, 2^53), or with m = 0 and e = 0
Normalize(a) ==
    LET \* a.m has len bits
        Scaled(len) ==
            IF len = 0 THEN [m |-> a.m, e |-> 0]
            ELSE [m |-> IF len <= 53 THEN ShiftLeft(a.m, 53 - len) ELSE ShiftRight(a.m, len - 53),
                  e |-> a.e + (len - 53)]
    IN Scaled(BitLen(a.m))

\* a * b on floats
fmul(a, b) == RoundToDouble(MulNat(a.m, b.m), a.e + b.e)

\* a / n on floats, for an integer n in 1 .. 2^25 - 1 (the divisors of the
\* program are counts and 100): the quotient to 36 bits beyond a's 53, its
\* lowest bit set when the division leaves a remainder
fdiv(a, n) ==
    LET Sticky(d) == IF d.r = 0 THEN d.q ELSE [d.q EXCEPT ![1] = IF @ % 2 = 0 THEN @ + 1 ELSE @]
        Quotient(x) ==
            IF IsZero(x.m) THEN x
            ELSE RoundToDouble(Sticky(DivLimbs(ShiftLeft(x.m, 36), n, 10, 0)), x.e - 36)
    IN Quotient(Normalize(a))

\* int(a): the fraction is dropped
int(a) == IF a.e >= 0 THEN ToInt(a.m) * 2^a.e ELSE ToInt(ShiftRight(a.m, 0 - a.e))

\* numpy.rint(a), as an integer: the nearest integer, a tie goes to the even
rint(a) ==
    LET \* q is a.m without its s lowest bits
        Rounded(s, q) ==
            IF Bit(a.m, s - 1) = 1 /\ (~LowBitsZero(a.m, s - 1) \/ q[1] % 2 = 1)
            THEN ToInt(q) + 1 ELSE ToInt(q)
    IN IF a.e >= 0 THEN ToInt(a.m) * 2^a.e
       ELSE IF 0 - a.e > 60 THEN 0
       ELSE Rounded(0 - a.e, ShiftRight(a.m, 0 - a.e))

\* the double float.hex() writes 0x1.<13 digits>p<p>: h5 is '1' and the first
\* digit, h4 .. h1 are the next digits by three
Double(h5, h4, h3, h2, h1, p) ==
    [m |-> AsSeq([i \in Limbs |-> IF i = 1 THEN h1 ELSE IF i = 2 THEN h2 ELSE IF i = 3 THEN h3
                                  ELSE IF i = 4 THEN h4 ELSE IF i = 5 THEN h5 ELSE 0]),
     e |-> p - 52]

\* an int used in a float product
float(n) == [m |-> FromInt(n), e |-> 0]

\* the double a with a sign, normalized
Signed(neg, a) ==
    LET With(x) == [neg |-> neg /\ ~IsZero(x.m), m |-> x.m, e |-> x.e]
    IN With(Normalize(a))

\* |a| < |b| on normalized doubles
MagnitudeLess(a, b) ==
    IF IsZero(b.m) THEN FALSE
    ELSE IF IsZero(a.m) THEN TRUE
    ELSE a.e < b.e \/ (a.e = b.e /\ a.m # b.m /\ LessEqNat(a.m, b.m))

\* a < b on signed, normalized doubles
DoubleLess(a, b) ==
    IF a.neg # b.neg THEN a.neg
    ELSE MagnitudeLess(IF a.neg THEN b ELSE a, IF a.neg THEN a ELSE b)

\* a + b on signed, normalized doubles: an addend below a quarter of the
\* other's last bit changes nothing, and otherwise the exact sum is rounded
fadd(a, b) ==
    LET \* shifted is big.m * 2^(big.e - small.e)
        Exact(big, small, shifted) ==
            RoundToDouble(IF big.neg = small.neg THEN AddNat(shifted, small.m)
                          ELSE SubNat(shifted, small.m),
                          small.e)
        Sum(big, small) ==
            IF IsZero(small.m) THEN big
            ELSE IF big.e - small.e >= 55 THEN big
            ELSE Signed(big.neg, Exact(big, small, ShiftLeft(big.m, big.e - small.e)))
        Ordered(swap) == Sum(IF swap THEN b ELSE a, IF swap THEN a ELSE b)
    IN Ordered(MagnitudeLess(a, b))

(***************************************************************************)
(* Stable sort of a sequence by a strict order (a merge sort: pandas        *)
(* sort_values on several keys and SQLite's sorter keep the order of equal *)
(* keys).                                                                  *)
(***************************************************************************)
SortBy(s, Less(_, _)) ==
    LET RECURSIVE Taken(_, _, _, _, _)
        \* the number of elements of a among the first k of the merge of a and
        \* b, which is in lo..hi: a[i] comes before b[j] unless b[j] is less
        Taken(a, b, k, lo, hi) ==
            IF lo = hi THEN lo
            ELSE LET i == (lo + hi + 1) \div 2
                 IN IF k - i + 1 > Len(b) \/ ~Less(b[k - i + 1], a[i])
                    THEN Taken(a, b, k, i, hi)
                    ELSE Taken(a, b, k, lo, i - 1)
        \* taken[k] of the first k elements of the merge are from a
        Picked(a, b, taken) ==
            AsSeq([k \in 1..(Len(a) + Len(b)) |->
                     IF taken[k] > (IF k = 1 THEN 0 ELSE taken[k - 1])
                     THEN a[taken[k]] ELSE b[k - taken[k]]])
        Merge(a, b) ==
            Picked(a, b, AsSeq([k \in 1..(Len(a) + Len(b)) |->
                                  Taken(a, b, k, 0, IF k < Len(a) THEN k ELSE Len(a))]))
        RECURSIVE Sort(_, _)
        Sort(lo, hi) ==
            IF lo > hi THEN <<>>
            ELSE IF lo = hi THEN <<s[lo]>>
            ELSE Merge(Sort(lo, (lo + hi) \div 2), Sort(((lo + hi) \div 2) + 1, hi))
    IN Sort(1, Len(s))

(***************************************************************************)
(* calculate_growth_metrics                                                *)
(***************************************************************************)
\* df.sort_values(['vehicle_category', 'manufacturer', 'date'])
RowLess(a, b) ==
    IF a.vehicle_category # b.vehicle_category
    THEN NameLess(a.vehicle_category, b.vehicle_category)
    ELSE IF a.manufacturer # b.manufacturer
    THEN NameLess(a.manufacturer, b.manufacturer)
    ELSE DateLess(a.date, b.date)

\* a grouping that forgets the category
GroupKeyByManufacturer(r) == <<r.manufacturer>>

\* the key of groupby(['vehicle_category', 'manufacturer'])
GroupKey(r) == <<r.vehicle_category, r.manufacturer>>

\* the rows of every group are consecutive in rows
Consecutive(rows) ==
    Cardinality({i \in 1..Len(rows) : i = 1 \/ GroupKey(rows[i - 1]) # GroupKey(rows[i])})
      = Cardinality({GroupKey(rows[i]) : i \in 1..Len(rows)})

\* the index of the row lag rows before row i in its group, or 0; consecutive
\* says that the rows of every group are consecutive in rows
Earlier(rows, i, lag, consecutive) ==
    IF consecutive
    THEN (IF i > lag /\ GroupKey(rows[i - lag]) = GroupKey(rows[i]) THEN i - lag ELSE 0)
    ELSE LET same == {j \in 1..i : GroupKey(rows[j]) = GroupKey(rows[i])}
             at == {j \in same : Cardinality({k \in same : k >= j}) = lag + 1}
         IN IF at = {} THEN 0 ELSE CHOOSE j \in at : TRUE

\* a shift that is one row short
ShiftOneShort(rows, lag) ==
    LET consecutive == Consecutive(rows)
    IN AsSeq([i \in 1..Len(rows) |->
                LET j == Earlier(rows, i, lag - 1, consecutive)
                IN IF j # 0 THEN Num(rows[j].registrations) ELSE NaN])

\* groupby(...)['registrations'].shift(lag): the value lag rows earlier in the row's group
Shift(rows, lag) ==
    LET consecutive == Consecutive(rows)
    IN AsSeq([i \in 1..Len(rows) |->
                LET j == Earlier(rows, i, lag, consecutive)
                IN IF j # 0 THEN Num(rows[j].registrations) ELSE NaN])

\* numpy's round(2) of (c - p) / p * 100 on float64, in hundredths: the
\* quotient is rounded to a double, and so are its products by 100 and by
\* 10 ** 2, before rint
PercentChange(c, p) ==
    LET Signed100(hundredths) == IF c < p THEN 0 - hundredths ELSE hundredths
    IN Signed100(rint(fmul(fmul(fdiv(float(IF c < p THEN p - c ELSE c - p), p), float(100)),
                           float(100))))

\* a growth taken relative to the current value instead of the earlier one
GrowthOverCurrent(registrations, prev) ==
    IF prev.k = "nan" THEN NaN
    ELSE IF registrations = 0 THEN (IF prev.v = 0 THEN NaN ELSE Inf)
    ELSE Num(PercentChange(prev.v + 2 * (registrations - prev.v), registrations))

\* ((registrations - prev) / prev * 100).round(2), in float arithmetic
Growth(registrations, prev) ==
    IF prev.k = "nan" THEN NaN
    ELSE IF prev.v = 0 THEN (IF registrations = 0 THEN NaN ELSE Inf)
    ELSE Num(PercentChange(registrations, prev.v))

calculate_growth_metrics(frame) ==
    LET Metrics(sorted, prevYear, prevQuarter) ==
       AsSeq([i \in 1..Len(sorted) |->
          [date |-> sorted[i].date,
           year |-> sorted[i].year,
           month |-> sorted[i].month,
           quarter |-> sorted[i].quarter,
           vehicle_category |-> sorted[i].vehicle_category,
           manufacturer |-> sorted[i].manufacturer,
           registrations |-> sorted[i].registrations,
           prev_year_registrations |-> prevYear[i],
           yoy_growth |-> Growth(sorted[i].registrations, prevYear[i]),
           prev_quarter_registrations |-> prevQuarter[i],
           qoq_growth |-> Growth(sorted[i].registrations, prevQuarter[i])]])
        Shifted(sorted) == Metrics(sorted, Shift(sorted, YoyLag), Shift(sorted, QoqLag))
    IN Shifted(SortBy(frame, RowLess))

(***************************************************************************)
(* generate_synthetic_data.                                                *)
(***************************************************************************)
\* len(pd.date_range(2020-01-01, 2024-12-31, freq='M'))
NumPeriods == 60

categories == <<"2W", "3W", "4W">>

manufacturers_of(category) ==
    CASE category = "2W" -> <<"Hero MotoCorp", "Honda", "TVS", "Bajaj", "Yamaha", "Royal Enfield">>
      [] category = "3W" -> <<"Bajaj", "Mahindra", "TVS", "Piaggio", "Atul Auto">>
      [] category = "4W" -> <<"Maruti Suzuki", "Hyundai", "Tata", "Mahindra", "Kia", "Toyota", "MG Motor">>

base_registrations(category) ==
    CASE category = "2W" -> 1200000
      [] category = "3W" -> 25000
      [] category = "4W" -> 280000

seasonal_factor(month) ==
    IF month \in {10, 11} THEN Double(\H14, \Hccc, \Hccc, \Hccc, \Hccd, 0)  \* 1.3
    ELSE IF month \in {3, 4} THEN Double(\H11, \H999, \H999, \H999, \H99a, 0)  \* 1.1
    ELSE IF month \in {7, 8} THEN Double(\H19, \H999, \H999, \H999, \H99a, -1)  \* 0.8
    ELSE Double(\H10, \H000, \H000, \H000, \H000, 0)  \* 1.0

\* (1 + 0.08) ** years_since_2020
growth_factor(years_since_2020) ==
    CASE years_since_2020 = 0 -> Double(\H10, \H000, \H000, \H000, \H000, 0)  \* 1.0
      [] years_since_2020 = 1 -> Double(\H11, \H47a, \He14, \H7ae, \H148, 0)  \* 1.08
      [] years_since_2020 = 2 -> Double(\H12, \Ha99, \H30b, \He0d, \Hed3, 0)  \* 1.1664
      [] years_since_2020 = 3 -> Double(\H14, \H27c, \H7c5, \H260, \Hf5f, 0)  \* 1.2597120000000002
      [] years_since_2020 = 4 -> Double(\H15, \Hc49, \H012, \H5c4, \He0b, 0)  \* 1.3604889600000003

covid_factor(year, month) ==
    IF year = 2020 /\ month >= 3 THEN Double(\H13, \H333, \H333, \H333, \H333, -1)  \* 0.6
    ELSE IF year = 2021 /\ month <= 6 THEN Double(\H18, \H000, \H000, \H000, \H000, -1)  \* 0.75
    ELSE Double(\H10, \H000, \H000, \H000, \H000, 0)  \* 1.0

market_shares(category, manufacturer) ==
    CASE category = "2W" /\ manufacturer = "Hero MotoCorp" ->
           Double(\H16, \H666, \H666, \H666, \H666, -2)  \* 0.35
      [] category = "2W" /\ manufacturer = "Honda" ->
           Double(\H10, \H000, \H000, \H000, \H000, -2)  \* 0.25
      [] category = "2W" /\ manufacturer = "TVS" ->
           Double(\H13, \H333, \H333, \H333, \H333, -3)  \* 0.15
      [] category = "2W" /\ manufacturer = "Bajaj" ->
           Double(\H1e, \Hb85, \H1eb, \H851, \Heb8, -4)  \* 0.12
      [] category = "2W" /\ manufacturer = "Yamaha" ->
           Double(\H14, \H7ae, \H147, \Hae1, \H47b, -4)  \* 0.08
      [] category = "2W" /\ manufacturer = "Royal Enfield" ->
           Double(\H19, \H999, \H999, \H999, \H99a, -5)  \* 0.05
      [] category = "3W" /\ manufacturer = "Bajaj" ->
           Double(\H1c, \Hccc, \Hccc, \Hccc, \Hccd, -2)  \* 0.45
      [] category = "3W" /\ manufacturer = "Mahindra" ->
           Double(\H10, \H000, \H000, \H000, \H000, -2)  \* 0.25
      [] category = "3W" /\ manufacturer = "TVS" ->
           Double(\H13, \H333, \H333, \H333, \H333, -3)  \* 0.15
      [] category = "3W" /\ manufacturer = "Piaggio" ->
           Double(\H19, \H999, \H999, \H999, \H99a, -4)  \* 0.10
      [] category = "3W" /\ manufacturer = "Atul Auto" ->
           Double(\H19, \H999, \H999, \H999, \H99a, -5)  \* 0.05
      [] category = "4W" /\ manufacturer = "Maruti Suzuki" ->
           Double(\H19, \H999, \H999, \H999, \H99a, -2)  \* 0.40
      [] category = "4W" /\ manufacturer = "Hyundai" ->
           Double(\H17, \H0a3, \Hd70, \Ha3d, \H70a, -3)  \* 0.18
      [] category = "4W" /\ manufacturer = "Tata" ->
           Double(\H1e, \Hb85, \H1eb, \H851, \Heb8, -4)  \* 0.12
      [] category = "4W" /\ manufacturer = "Mahindra" ->
           Double(\H19, \H999, \H999, \H999, \H99a, -4)  \* 0.10
      [] category = "4W" /\ manufacturer = "Kia" ->
           Double(\H14, \H7ae, \H147, \Hae1, \H47b, -4)  \* 0.08
      [] category = "4W" /\ manufacturer = "Toyota" ->
           Double(\H11, \Heb8, \H51e, \Hb85, \H1ec, -4)  \* 0.07
      [] category = "4W" /\ manufacturer = "MG Motor" ->
           Double(\H19, \H999, \H999, \H999, \H99a, -5)  \* 0.05

\* the count less int(base_reg): the deviation from the base
registrationsAsDeviation(date, category, manufacturer, random_factor) ==
    LET base_reg == fmul(float(base_registrations(category)),
                         market_shares(category, manufacturer))
    IN int(fmul(fmul(fmul(fmul(base_reg, growth_factor(date.y - StartYear)),
                          seasonal_factor(date.m)),
                     covid_factor(date.y, date.m)),
                random_factor)) - int(base_reg)

\* int(base_reg * growth_factor * seasonal_factor * covid_factor * random_factor)
registrations(date, category, manufacturer, random_factor) ==
    LET base_reg == fmul(float(base_registrations(category)),
                         market_shares(category, manufacturer))
    IN int(fmul(fmul(fmul(fmul(base_reg, growth_factor(date.y - StartYear)),
                          seasonal_factor(date.m)),
                     covid_factor(date.y, date.m)),
                random_factor))

\* the dict appended to data
Record(date, category, manufacturer, random_factor) ==
    [date |-> date,
     year |-> date.y,
     month |-> date.m,
     quarter |-> Quarter(date.m),
     vehicle_category |-> category,
     manufacturer |-> manufacturer,
     registrations |-> registrations(date, category, manufacturer, random_factor)]

\* the ends of the band of random.uniform(0.85, 1.15)
NoiseLow == Double(\H1b, \H333, \H333, \H333, \H333, -1)  \* 0.85

NoiseHigh == Double(\H12, \H666, \H666, \H666, \H666, 0)  \* 1.15

\* values random.uniform(0.85, 1.15) can return: the ends of the band and
\* the multiples of 2^-MaxNoiseBits between them
random_factors ==
    {NoiseLow, NoiseHigh}
      \cup {[m |-> FromInt(i), e |-> 0 - MaxNoiseBits] :
              i \in {j \in 1..(2 * 2^MaxNoiseBits) :
                       /\ 85 * 2^MaxNoiseBits <= 100 * j
                       /\ 100 * j <= 115 * 2^MaxNoiseBits}}

\* the random factors tried where every manufacturer of a category draws one:
\* the ends of the band
block_factors == {NoiseLow, NoiseHigh}

RECURSIVE Concat(_)
Concat(ss) == IF ss = <<>> THEN <<>> ELSE Head(ss) \o Concat(Tail(ss))

\* the (category, manufacturer) pairs in the order of the two inner loops
Roster ==
    Concat([c \in 1..Len(categories) |->
              [i \in 1..Len(manufacturers_of(categories[c])) |->
                 <<categories[c], manufacturers_of(categories[c])[i]>>]])

\* data, as the three loops fill it: for each date, for each category, for
\* each manufacturer a record; draws[i] is what random.uniform returns for
\* the i-th record
generate_synthetic_data(draws) ==
    AsSeq([i \in 1..(NumPeriods * Len(Roster)) |->
             Record(MonthEnd((i - 1) \div Len(Roster)),
                    Roster[((i - 1) % Len(Roster)) + 1][1],
                    Roster[((i - 1) % Len(Roster)) + 1][2],
                    draws[i])])

\* the draws of the runs tried: one factor of block_factors at every record
Draws == {AsSeq([i \in 1..(NumPeriods * Len(Roster)) |-> f]) : f \in block_factors}

\* the loop variables of generate_synthetic_data outside the loops
NoLoop == [date |-> 0, category |-> "", manufacturer |-> 0]

(***************************************************************************)
(* Input frames.  A series is the rows of one (vehicle_category,           *)
(* manufacturer) pair: n month-end rows starting January 2020, the month   *)
(* after the first `gap` rows missing when gap > 0, with registrations b   *)
(* in every row except row j, which has v.                                 *)
(***************************************************************************)
Series(cat, man, n, gap, j, b, v) ==
    [i \in 1..n |->
       LET date == MonthEnd((i - 1) + (IF gap > 0 /\ i > gap THEN 1 ELSE 0))
       IN
       [date |-> date,
        year |-> date.y,
        month |-> date.m,
        quarter |-> Quarter(date.m),
        vehicle_category |-> cat,
        manufacturer |-> man,
        registrations |-> IF i = j THEN v ELSE b]]

Reverse(s) == [i \in 1..Len(s) |-> s[Len(s) + 1 - i]]

\* registrations of the frames handed to calculate_growth_metrics: from 160 to
\* 183 is 14.375 percent, a tie of round(2)
GrowthCounts == {0, 160, 183}

GrowthFrames ==
    { (IF rev THEN Reverse(a \o b) ELSE a \o b) :
        a \in { Series("2W", "Bajaj", n[1], n[2], n[3], c[1], c[2]) :
                  n \in { t \in (0..MaxLen) \X (0..MaxGap) \X (0..MaxSpecial) :
                            t[2] < t[1] /\ t[3] <= t[1] },
                  c \in GrowthCounts \X GrowthCounts },
        b \in { Series("3W", "Bajaj", m, 0, 0, c, c) : m \in {0, 4}, c \in {3, 7} },
        rev \in BOOLEAN }

(***************************************************************************)
(* save_to_database: df.to_sql('vehicle_registrations', if_exists=         *)
(* 'replace').  A Timestamp is written as text, NaN as NULL.               *)
(***************************************************************************)
\* NaN written as 0 instead of NULL
ToSqlZero(x) == IF x.k = "nan" THEN Num(0) ELSE x

\* NaN written as NULL
ToSql(x) == IF x.k = "nan" THEN Null ELSE x

StoreRow(r) ==
    [date |-> TimestampText(r.date),
     year |-> r.year,
     month |-> r.month,
     quarter |-> r.quarter,
     vehicle_category |-> r.vehicle_category,
     manufacturer |-> r.manufacturer,
     registrations |-> r.registrations,
     prev_year_registrations |-> ToSql(r.prev_year_registrations),
     yoy_growth |-> ToSql(r.yoy_growth),
     prev_quarter_registrations |-> ToSql(r.prev_quarter_registrations),
     qoq_growth |-> ToSql(r.qoq_growth)]

save_to_database(frame) == AsSeq([i \in 1..Len(frame) |-> StoreRow(frame[i])])

(***************************************************************************)
(* SQL helpers.                                                            *)
(***************************************************************************)
\* an optional list argument: None, or a list of names
None == [some |-> FALSE, items |-> <<>>]
List(xs) == [some |-> TRUE, items |-> xs]

\* Python truth of an optional list: None and [] are both false
Truthy(p) == p.some /\ p.items # <<>>

Items(p) == {p.items[i] : i \in 1..Len(p.items)}

\* x BETWEEN lo AND hi, on text
Between(x, lo, hi) == TextLE(lo, x) /\ TextLE(x, hi)

\* WHERE date BETWEEN ? AND ? with the bounds formatted by strftime('%Y-%m-%d')
DateBetween(r, start_date, end_date) ==
    Between(r.date, strftime(start_date), strftime(end_date))

\* the rows of WHERE date BETWEEN ? AND ?
InRange(table, start_date, end_date) ==
    LET lo == strftime(start_date)
        hi == strftime(end_date)
    IN SelectSeq(table, LAMBDA r : Between(r.date, lo, hi))

RECURSIVE SumRange(_, _, _)
\* the registrations of rows[lo], ..., rows[hi], added up
SumRange(rows, lo, hi) ==
    IF lo > hi THEN 0
    ELSE IF lo = hi THEN rows[lo].registrations
    ELSE SumRange(rows, lo, (lo + hi) \div 2) + SumRange(rows, ((lo + hi) \div 2) + 1, hi)

\* SUM(registrations) of a non-empty group
SumRegistrations(rows) == SumRange(rows, 1, Len(rows))

\* the schema objects save_to_database creates
Table == "vehicle_registrations"

Indexes == <<"idx_date", "idx_category", "idx_manufacturer">>

Schema == {Table} \cup {Indexes[i] : i \in 1..Len(Indexes)}

\* the order in which SQLite reads the rows of the range for an aggregate
\* query: by date, rows of a date by rowid, when idx_date is there; by rowid
\* when it is not, and when the query names one vehicle_category and
\* idx_category is there
ScanOrder(rows, schema, by_category) ==
    IF by_category /\ "idx_category" \in schema THEN rows
    ELSE IF "idx_date" \in schema THEN SortBy(rows, LAMBDA a, b : TextLess(a.date, b.date))
    ELSE rows

\* the REAL stored for a value of v hundredths: the double nearest to v / 100
Real(v) == Signed(v < 0, fdiv(float(IF v < 0 THEN 0 - v ELSE v), 100))

RECURSIVE SumReals(_, _, _, _)
\* ((acc + xs[lo]) + ...) + xs[hi], each sum rounded to a double
SumReals(xs, lo, hi, acc) ==
    IF lo > hi THEN acc
    ELSE IF lo = hi THEN fadd(acc, Real(xs[lo].v))
    ELSE LET left == {SumReals(xs, lo, (lo + hi) \div 2, acc)}
         IN CHOOSE sum \in {SumReals(xs, ((lo + hi) \div 2) + 1, hi, l) : l \in left} : TRUE

\* AVG(column) of the values in the order they are read: NULLs are skipped and
\* the others are added up as doubles, the sum is divided by their number.
\* The result is [k, neg, m, e]: NULL, inf, or the double (-1)^neg * m * 2^e
Avg(xs) ==
    LET Number(mean) == [k |-> "num", neg |-> mean.neg, m |-> mean.m, e |-> mean.e]
        Mean(sum, n) == Number(Signed(sum.neg, fdiv(sum, n)))
        Of(vals) ==
            IF vals = <<>> THEN [k |-> "null", neg |-> FALSE, m |-> FromInt(0), e |-> 0]
            ELSE IF \E i \in 1..Len(vals) : vals[i].k = "inf"
            THEN [k |-> "inf", neg |-> FALSE, m |-> FromInt(0), e |-> 0]
            ELSE Mean(SumReals(vals, 1, Len(vals), [neg |-> FALSE, m |-> FromInt(0), e |-> 0]),
                      Len(vals))
    IN Of(SelectSeq(xs, LAMBDA x : x.k # "null"))

\* a < b on AVG values (NULL first, inf last)
AvgLess(a, b) ==
    IF a.k = "null" THEN b.k # "null"
    ELSE IF a.k = "inf" THEN FALSE
    ELSE IF b.k = "null" THEN FALSE
    ELSE IF b.k = "inf" THEN TRUE
    ELSE DoubleLess(a, b)

\* the groups of GROUP BY, as sequences of rows: the sorter puts the rows in
\* the order of Less, rows of equal keys in the order they were read
GroupBy(rows, Key(_), Less(_, _)) ==
    LET \* group g is sorted[starts[g]], ..., up to the next start
        Runs(sorted, starts) ==
            AsSeq([g \in 1..Len(starts) |->
                     SubSeq(sorted, starts[g],
                            IF g = Len(starts) THEN Len(sorted) ELSE starts[g + 1] - 1)])
        Split(sorted) ==
            Runs(sorted, SelectSeq(AsSeq([i \in 1..Len(sorted) |-> i]),
                                   LAMBDA i : i = 1 \/ Key(sorted[i - 1]) # Key(sorted[i])))
    IN Split(SortBy(rows, Less))

Column(rows, Field(_)) == AsSeq([i \in 1..Len(rows) |-> Field(rows[i])])

\* ORDER BY date, vehicle_category, manufacturer
OrderByDate(a, b) ==
    IF a.date # b.date THEN TextLess(a.date, b.date)
    ELSE IF a.vehicle_category # b.vehicle_category
    THEN NameLess(a.vehicle_category, b.vehicle_category)
    ELSE IF a.manufacturer # b.manufacturer
    THEN NameLess(a.manufacturer, b.manufacturer)
    ELSE FALSE

\* the order of the keys of GROUP BY manufacturer, vehicle_category
OrderByManufacturer(a, b) ==
    IF a.manufacturer # b.manufacturer
    THEN NameLess(a.manufacturer, b.manufacturer)
    ELSE IF a.vehicle_category # b.vehicle_category
    THEN NameLess(a.vehicle_category, b.vehicle_category)
    ELSE FALSE

\* ORDER BY total_registrations DESC
OrderByTotalDesc(a, b) == a.total_registrations > b.total_registrations

\* ORDER BY avg_growth DESC
OrderByAvgGrowthDesc(a, b) == AvgLess(b.avg_growth, a.avg_growth)

(***************************************************************************)
(* DatabaseManager queries, on the rows of vehicle_registrations (in rowid *)
(* order) and, where the order of reading shows in an average, the schema. *)
(* Rows that tie in the ORDER BY come in the order the grouping gives:     *)
(* SQLite groups in ascending order of the GROUP BY terms; when the ORDER  *)
(* BY ... DESC has as many terms the sorter of the GROUP BY takes its      *)
(* direction, and the groups come in descending order, unless the rows are *)
(* read through the index on the GROUP BY column and no sorter is used.    *)
(***************************************************************************)
get_filtered_data(table, start_date, end_date, vehicle_categories, manufacturers) ==
    SortBy(SelectSeq(InRange(table, start_date, end_date), LAMBDA r :
             /\ Truthy(vehicle_categories) => r.vehicle_category \in Items(vehicle_categories)
             /\ Truthy(manufacturers) => r.manufacturer \in Items(manufacturers)),
           OrderByDate)

TrendKey(r) == <<r.date, r.year, r.month, r.quarter, r.vehicle_category, r.manufacturer>>

\* the digit of 'Q1' .. 'Q4'
QuarterNumber(quarter) ==
    CASE quarter = "Q1" -> 1 [] quarter = "Q2" -> 2 [] quarter = "Q3" -> 3 [] quarter = "Q4" -> 4

\* the order of the keys of GROUP BY date, year, month, quarter,
\* vehicle_category, manufacturer
OrderByTrendKey(a, b) ==
    IF a.date # b.date THEN TextLess(a.date, b.date)
    ELSE IF a.year # b.year THEN a.year < b.year
    ELSE IF a.month # b.month THEN a.month < b.month
    ELSE IF a.quarter # b.quarter THEN QuarterNumber(a.quarter) < QuarterNumber(b.quarter)
    ELSE OrderByDate(a, b)

get_monthly_trends(table, start_date, end_date, vehicle_categories, manufacturers) ==
    LET Row(group) ==
            [date |-> group[1].date,
             year |-> group[1].year,
             month |-> group[1].month,
             quarter |-> group[1].quarter,
             vehicle_category |-> group[1].vehicle_category,
             manufacturer |-> group[1].manufacturer,
             registrations |-> SumRegistrations(group),
             yoy_growth |-> Avg(Column(group, LAMBDA r : r.yoy_growth)),
             qoq_growth |-> Avg(Column(group, LAMBDA r : r.qoq_growth))]
        Rows(groups) == AsSeq([g \in 1..Len(groups) |-> Row(groups[g])])
        Selected(rows) ==
            SelectSeq(rows, LAMBDA r :
              /\ Truthy(vehicle_categories) => r.vehicle_category \in Items(vehicle_categories)
              /\ Truthy(manufacturers) => r.manufacturer \in Items(manufacturers))
    IN SortBy(Rows(GroupBy(Selected(InRange(table, start_date, end_date)),
                           TrendKey, OrderByTrendKey)),
              OrderByDate)

CategoryKey(r) == <<r.vehicle_category>>

\* GROUP BY vehicle_category under ORDER BY total_registrations DESC: the
\* range is read through idx_date and a sorter groups the rows, in descending
\* order; without idx_date the rows are read through idx_category, in
\* ascending order; without both the table is scanned and the sorter groups
OrderByCategory(schema, a, b) ==
    IF a.vehicle_category = b.vehicle_category THEN FALSE
    ELSE IF "idx_date" \notin schema /\ "idx_category" \in schema
    THEN NameLess(a.vehicle_category, b.vehicle_category)
    ELSE NameLess(b.vehicle_category, a.vehicle_category)

\* COUNT(DISTINCT manufacturer)
CountDistinctManufacturer(rows) ==
    Cardinality({rows[i].manufacturer : i \in 1..Len(rows)})

get_category_summary(table, schema, start_date, end_date) ==
    LET Row(group) ==
            [vehicle_category |-> group[1].vehicle_category,
             total_registrations |-> SumRegistrations(group),
             avg_yoy_growth |-> Avg(Column(group, LAMBDA r : r.yoy_growth)),
             avg_qoq_growth |-> Avg(Column(group, LAMBDA r : r.qoq_growth)),
             num_manufacturers |-> CountDistinctManufacturer(group)]
        Rows(groups) == AsSeq([g \in 1..Len(groups) |-> Row(groups[g])])
    IN SortBy(Rows(GroupBy(ScanOrder(InRange(table, start_date, end_date), schema, FALSE),
                           CategoryKey, LAMBDA a, b : OrderByCategory(schema, a, b))),
              OrderByTotalDesc)

\* an Optional[str] argument left out (None and '' are both false in `if`)
NoCategory == ""

LeaderKey(r) == <<r.manufacturer, r.vehicle_category>>

get_manufacturer_summary(table, schema, start_date, end_date, vehicle_category) ==
    LET Row(group) ==
            [manufacturer |-> group[1].manufacturer,
             vehicle_category |-> group[1].vehicle_category,
             total_registrations |-> SumRegistrations(group),
             avg_yoy_growth |-> Avg(Column(group, LAMBDA r : r.yoy_growth)),
             avg_qoq_growth |-> Avg(Column(group, LAMBDA r : r.qoq_growth))]
        Rows(groups) == AsSeq([g \in 1..Len(groups) |-> Row(groups[g])])
        Selected(rows) ==
            SelectSeq(rows, LAMBDA r :
              vehicle_category # NoCategory => r.vehicle_category = vehicle_category)
    IN SortBy(Rows(GroupBy(ScanOrder(Selected(InRange(table, start_date, end_date)),
                                     schema, vehicle_category # NoCategory),
                           LeaderKey, OrderByManufacturer)),
              OrderByTotalDesc)

\* HAVING total_registrations > 1000, with >= in place of >
HavingAtLeast(total) == total >= MinVolume

\* HAVING total_registrations > 1000
Having(total) == total > MinVolume

get_growth_leaders(table, schema, start_date, end_date, growth_type) ==
    LET GrowthColumn(r) == IF growth_type = "yoy" THEN r.yoy_growth ELSE r.qoq_growth
        Row(group) ==
            [manufacturer |-> group[1].manufacturer,
             vehicle_category |-> group[1].vehicle_category,
             avg_growth |-> Avg(Column(group, GrowthColumn)),
             total_registrations |-> SumRegistrations(group)]
        Rows(groups) == AsSeq([g \in 1..Len(groups) |-> Row(groups[g])])
        Selected(rows) == SelectSeq(rows, LAMBDA r : GrowthColumn(r).k # "null")
        Kept(rows) == SelectSeq(rows, LAMBDA x : Having(x.total_registrations))
        Limit(ordered) ==
            SubSeq(ordered, 1, IF Len(ordered) < LeadersLimit THEN Len(ordered) ELSE LeadersLimit)
    IN Limit(SortBy(Kept(Rows(GroupBy(ScanOrder(Selected(InRange(table, start_date, end_date)),
                                                schema, FALSE),
                                      LeaderKey, OrderByManufacturer))),
                    OrderByAvgGrowthDesc))

ShareKey(r) == <<r.manufacturer>>

\* GROUP BY manufacturer under ORDER BY total_registrations DESC: the rows of
\* the category are found through idx_category, or else those of the range
\* through idx_date, and a sorter groups them, in descending order; with
\* idx_manufacturer alone the rows are read through it, in ascending order;
\* without any index the table is scanned and the sorter groups
OrderByShare(schema, a, b) ==
    IF a.manufacturer = b.manufacturer THEN FALSE
    ELSE IF "idx_manufacturer" \in schema /\ "idx_category" \notin schema
              /\ "idx_date" \notin schema
    THEN NameLess(a.manufacturer, b.manufacturer)
    ELSE NameLess(b.manufacturer, a.manufacturer)

get_market_share_data(table, schema, start_date, end_date, vehicle_category) ==
    LET \* total is the scalar subquery: the same WHERE clause, no grouping
        Row(group, total) ==
            [manufacturer |-> group[1].manufacturer,
             total_registrations |-> SumRegistrations(group),
             market_share |->
               IF total = 0 THEN Null
               ELSE Num(RoundHalfUp(SumRegistrations(group) * 10000, total))]
        Rows(groups, total) == AsSeq([g \in 1..Len(groups) |-> Row(groups[g], total)])
        Shares(sel) ==
            Rows(GroupBy(sel, ShareKey, LAMBDA a, b : OrderByShare(schema, a, b)),
                 SumRegistrations(sel))
    IN SortBy(Shares(SelectSeq(InRange(table, start_date, end_date), LAMBDA r :
                       r.vehicle_category = vehicle_category)),
              OrderByTotalDesc)

\* SELECT DISTINCT name ... ORDER BY name, as a list
Distinct(names) ==
    AsSeq([i \in 1..Cardinality(names) |->
             CHOOSE a \in names : Cardinality({b \in names : NameLess(b, a)}) = i - 1])

get_vehicle_categories(table) ==
    Distinct({table[i].vehicle_category : i \in 1..Len(table)})

get_manufacturers(table, vehicle_category) ==
    Distinct({table[i].manufacturer :
                i \in {j \in 1..Len(table) :
                         vehicle_category # NoCategory
                           => table[j].vehicle_category = vehicle_category}})

\* days of the fallback range
FallbackDays == 365

\* pd.to_datetime(None)
NaT == [y |-> 0, m |-> 0, d |-> 0]

\* the least (greatest) of a set of texts
MinText(texts) == CHOOSE a \in texts : \A b \in texts : ~TextLess(b, a)

MaxText(texts) == CHOOSE a \in texts : \A b \in texts : ~TextLess(a, b)

\* (min_date, max_date): MIN(date) and MAX(date) of the table, which are NULL
\* when it has no rows; when the query gave an empty DataFrame,
\* (datetime.now() - timedelta(days=365), datetime.now()), where first and
\* second are what the two calls of datetime.now() return
get_date_range(answered, table, first, second) ==
    LET Range(dates) ==
            IF dates = {} THEN <<NaT, NaT>>
            ELSE <<to_datetime(MinText(dates)), to_datetime(MaxText(dates))>>
    IN IF answered THEN Range({table[i].date : i \in 1..Len(table)})
       ELSE <<DaysBefore(first, FallbackDays), second>>

\* pd.read_sql_query returns the rows of the SELECT, or raises (the table is
\* missing, the database is locked, the file cannot be read) and the except
\* branch returns an empty DataFrame
execute_query(answered, rows) == IF answered THEN rows ELSE <<>>

\* what sqlite3 does with a statement sent by execute_query(sql), for the
\* statements of QueryArgs: the table and the schema objects of the file
\* afterwards.  DROP and CREATE INDEX take effect at once; DROP TABLE takes
\* the indexes of the table with it; a DROP of what is not there and a CREATE
\* INDEX on a table that is not there raise; CREATE INDEX IF NOT EXISTS (the
\* statements of save_to_database) leaves an index that is there.  The
\* transaction a DELETE opens is never committed (read_sql_query raises on
\* the cursor without columns, conn.close() is skipped) and is rolled back
\* with the connection.
Executed(sql, table, schema) ==
    CASE sql.verb = "DROP TABLE" ->
           IF sql.name \in schema THEN [table |-> <<>>, schema |-> {}]
           ELSE [table |-> table, schema |-> schema]
      [] sql.verb = "DROP INDEX" -> [table |-> table, schema |-> schema \ {sql.name}]
      [] sql.verb = "CREATE INDEX" ->
           IF Table \in schema THEN [table |-> table, schema |-> schema \cup {sql.name}]
           ELSE [table |-> table, schema |-> schema]
      [] sql.verb \in {"SELECT COUNT", "DELETE"} -> [table |-> table, schema |-> schema]

\* the rows execute_query(sql) returns: those of a SELECT that is answered;
\* for every other statement read_sql_query raises, on the statement or on
\* its cursor, and the except branch returns an empty DataFrame
Returned(sql, answered, table) ==
    IF sql.verb = "SELECT COUNT" /\ answered THEN <<[total_records |-> Len(table)]>>
    ELSE <<>>

(***************************************************************************)
(* Saved frames and query arguments.                                       *)
(***************************************************************************)
\* (every row, last row) registrations of the '2W' 'Bajaj' series
QueryCounts == {<<0, 1000>>, <<100, 600>>, <<600, 600>>, <<1001, 100>>}

\* the '2W' and '3W' rosters: LeadersLimit + 1 (vehicle_category, manufacturer) pairs
WideRoster ==
    << <<"2W", "Hero MotoCorp">>, <<"2W", "Honda">>, <<"2W", "TVS">>, <<"2W", "Bajaj">>,
       <<"2W", "Yamaha">>, <<"2W", "Royal Enfield">>, <<"3W", "Bajaj">>, <<"3W", "Mahindra">>,
       <<"3W", "TVS">>, <<"3W", "Piaggio">>, <<"3W", "Atul Auto">> >>

\* QoqLag + 1 months of every pair of WideRoster, 2000 registrations a month and
\* a last month that differs from pair to pair
WideFrame ==
    Concat([g \in 1..Len(WideRoster) |->
              Series(WideRoster[g][1], WideRoster[g][2], QoqLag + 1, 0, QoqLag + 1,
                     2000, 2000 + 100 * ((7 * g) % 11))])

\* small frames of (date, vehicle_category, manufacturer, registrations), as a
\* caller hands them to the public calculate_growth_metrics and
\* save_to_database; DatabaseManager reads the table they leave. They are not
\* frames of generate_synthetic_data, which Generate draws from Draws.
QueryFrames ==
    { a \o b \o c :
        a \in { Series("2W", "Bajaj", n, 0, n, p[1], p[2]) :
                  n \in {1, QoqLag + 1, MaxQLen}, p \in QueryCounts },
        b \in { Series("3W", "Bajaj", n, 0, 0, 1001, 1001) : n \in {0, QoqLag + 1} },
        c \in { Series("2W", "TVS", n, 0, 0, 200, 200) : n \in {0, 1} } }
    \cup {WideFrame}

\* the values of datetime.now() at a call of get_date_range: the days before
\* and after a midnight, and a later day
Clock ==
    { [y |-> 2024, m |-> 3, d |-> 1], [y |-> 2024, m |-> 3, d |-> 2],
      [y |-> 2026, m |-> 10, d |-> 30] }

\* the arguments of the calls made on the saved frames: the bounds of the
\* queried ranges are three month ends, and the start bounds include a year
\* of three digits; the statements handed to execute_query are
\* SELECT COUNT(*) as total_records FROM vehicle_registrations (as
\* insights_analysis.py sends it), DELETE FROM vehicle_registrations, DROP
\* TABLE vehicle_registrations, and for each index DROP INDEX and the CREATE
\* INDEX IF NOT EXISTS of save_to_database.  Other statements (CREATE TABLE,
\* ALTER TABLE, an index of another definition) are not among them.
QueryArgs ==
    [start_dates |->
       {[y |-> 2020, m |-> 1, d |-> 31], [y |-> 2020, m |-> 4, d |-> 30],
        [y |-> 2021, m |-> 2, d |-> 28], [y |-> 999, m |-> 12, d |-> 31]},
     end_dates |->
       {[y |-> 2020, m |-> 1, d |-> 31], [y |-> 2020, m |-> 4, d |-> 30],
        [y |-> 2021, m |-> 2, d |-> 28]},
     vehicle_categories |->
       {None, List(<<>>), List(<<"2W">>), List(<<"3W">>), List(<<"2W", "3W">>)},
     manufacturers |-> {None, List(<<>>), List(<<"Bajaj">>), List(<<"TVS">>)},
     vehicle_category |-> {"2W", "3W"},
     growth_type |-> {"yoy", "qoq"},
     statements |->
       {[verb |-> v, name |-> Table] : v \in {"SELECT COUNT", "DELETE", "DROP TABLE"}}
         \cup {[verb |-> v, name |-> Indexes[i]] :
                 v \in {"DROP INDEX", "CREATE INDEX"}, i \in 1..Len(Indexes)},
     clock |-> Clock]

\* the arguments of the calls of a session in which the caller keeps an
\* answer and asks again: the text of the end bound 2020-04-30 sorts before
\* the stored dates of April, and the months before have equal counts
SessionArgs ==
    [start_dates |-> {[y |-> 2020, m |-> 1, d |-> 31]},
     end_dates |-> {[y |-> 2020, m |-> 4, d |-> 30], [y |-> 2021, m |-> 2, d |-> 28]},
     vehicle_categories |-> {List(<<"2W">>)},
     manufacturers |-> {None},
     vehicle_category |-> {"2W"},
     growth_type |-> {"qoq"},
     statements |->
       {[verb |-> "DROP TABLE", name |-> Table]}
         \cup {[verb |-> v, name |-> Indexes[i]] :
                 v \in {"DROP INDEX", "CREATE INDEX"}, i \in 1..Len(Indexes)},
     clock |-> {[y |-> 2024, m |-> 3, d |-> 1]}]

\* the arguments of the calls made while scrape_and_process_data runs
RunArgs ==
    [start_dates |-> {[y |-> 2021, m |-> 1, d |-> 31]},
     end_dates |-> {[y |-> 2021, m |-> 2, d |-> 28]},
     vehicle_categories |-> {List(<<"3W">>)},
     manufacturers |-> {None},
     vehicle_category |-> {"3W"},
     growth_type |-> {"yoy"},
     statements |-> {[verb |-> "DROP TABLE", name |-> Table]},
     clock |-> {[y |-> 2024, m |-> 3, d |-> 1], [y |-> 2024, m |-> 3, d |-> 2]}]

(***************************************************************************)
(* State machine.  pc is the position of scrape_and_process_data; df is    *)
(* its DataFrame; store is the rows of vehicle_registrations in the        *)
(* database file and catalog the schema objects of the file, as another    *)
(* connection sees them (each statement of the save commits on its own,    *)
(* the INSERT of all rows as one); runs counts the runs started; query and *)
(* result are the last DatabaseManager call and what it returned, error    *)
(* saying that execute_query printed 'Error executing query'.  A           *)
(* DatabaseManager call can be made between any two steps of a run.  kept  *)
(* is the call and the answer the caller has put aside, as main holds      *)
(* category_summary while it makes its later calls, together with the      *)
(* schema objects the file had when the answer was given, a record of the  *)
(* past that no step of the program reads.                                 *)
(***************************************************************************)
NoQuery == [op |-> "none"]

\* the table exists in the database file
TableExists == Table \in catalog

\* scrape_and_process_data can be called: no run is under way
CanRun == pc \in {"start", "done", "failed"} /\ query = NoQuery /\ runs < MaxRuns

\* df = self.generate_synthetic_data()
Generate ==
    /\ CanRun
    /\ \E draws \in Draws : df' = generate_synthetic_data(draws)
    /\ pc' = "generated"
    /\ runs' = runs + 1
    /\ UNCHANGED <<store, catalog, query, result, loop, previous, kept>>

\* generate_synthetic_data raises: scrape_and_process_data has no handler, the
\* exception reaches generate_data of setup.py, which reports it
GenerateRaises ==
    /\ CanRun
    /\ df' = <<>>
    /\ pc' = "failed"
    /\ runs' = runs + 1
    /\ UNCHANGED <<store, catalog, query, result, loop, previous, kept>>

\* df = self.calculate_growth_metrics(df)
CalculateGrowthMetrics ==
    /\ pc = "generated"
    /\ query = NoQuery
    /\ df' = calculate_growth_metrics(df)
    /\ pc' = "derived"
    /\ UNCHANGED <<store, catalog, query, result, runs, loop, previous, kept>>

\* calculate_growth_metrics raises after the rows before the last were saved
CalculateGrowthMetricsRaisesHalfSaved ==
    /\ pc = "generated"
    /\ query = NoQuery
    /\ df' = <<>>
    /\ store' = save_to_database(calculate_growth_metrics(SubSeq(df, 1, Len(df) - 1)))
    /\ catalog' = Schema
    /\ pc' = "failed"
    /\ UNCHANGED <<query, result, runs, loop, previous, kept>>

\* calculate_growth_metrics raises, and the exception leaves the run the same way
CalculateGrowthMetricsRaises ==
    /\ pc = "generated"
    /\ query = NoQuery
    /\ df' = <<>>
    /\ pc' = "failed"
    /\ UNCHANGED <<store, catalog, query, result, runs, loop, previous, kept>>

\* to_sql with if_exists='append': the table that exists is kept as it is
KeepTable ==
    /\ pc = "derived"
    /\ query = NoQuery
    /\ TableExists
    /\ pc' = "created"
    /\ UNCHANGED <<df, store, catalog, query, result, runs, loop, previous, kept>>

\* to_sql with if_exists='replace', the table existing: DROP TABLE, which
\* takes the indexes of the table with it
DropTable ==
    /\ pc = "derived"
    /\ query = NoQuery
    /\ TableExists
    /\ store' = <<>>
    /\ catalog' = {}
    /\ pc' = "dropped"
    /\ UNCHANGED <<df, query, result, runs, loop, previous, kept>>

\* to_sql: CREATE TABLE vehicle_registrations
CreateTable ==
    /\ pc = "dropped" \/ (pc = "derived" /\ ~TableExists)
    /\ query = NoQuery
    /\ store' = <<>>
    /\ catalog' = {Table}
    /\ pc' = "created"
    /\ UNCHANGED <<df, query, result, runs, loop, previous, kept>>

\* to_sql: the INSERT of every row of df, committed as one transaction
InsertRows ==
    /\ pc = "created"
    /\ query = NoQuery
    /\ TableExists
    /\ store' = store \o save_to_database(df)
    /\ pc' = "inserted"
    /\ UNCHANGED <<df, catalog, query, result, runs, loop, previous, kept>>

\* the next CREATE INDEX IF NOT EXISTS of save_to_database; conn.close()
\* follows the last
CreateIndex ==
    /\ query = NoQuery
    /\ TableExists
    /\ \E i \in 1..Len(Indexes) :
         /\ pc = <<"inserted", "idx_date", "idx_category">>[i]
         /\ catalog' = catalog \cup {Indexes[i]}
         /\ pc' = <<"idx_date", "idx_category", "saved">>[i]
    /\ UNCHANGED <<df, store, query, result, runs, loop, previous, kept>>

\* sqlite3.connect, a statement of to_sql or a CREATE INDEX raises (the
\* database is locked by another connection, the table was dropped under the
\* run, the disk is full): neither save_to_database nor
\* scrape_and_process_data has a handler, the run ends with the statements
\* committed so far; an INSERT that raises is rolled back
SaveToDatabaseRaises ==
    /\ pc \in {"derived", "dropped", "created", "inserted", "idx_date", "idx_category"}
    /\ query = NoQuery
    /\ df' = <<>>
    /\ pc' = "failed"
    /\ UNCHANGED <<store, catalog, query, result, runs, loop, previous, kept>>

\* df.to_csv('vehicle_data.csv', index=False); return df
ToCsv ==
    /\ pc = "saved"
    /\ query = NoQuery
    /\ pc' = "done"
    /\ UNCHANGED <<df, store, catalog, query, result, runs, loop, previous, kept>>

\* df.to_csv raises after the save: the run fails with the table written
ToCsvRaises ==
    /\ pc = "saved"
    /\ query = NoQuery
    /\ df' = <<>>
    /\ pc' = "failed"
    /\ UNCHANGED <<store, catalog, query, result, runs, loop, previous, kept>>

\* a DatabaseManager call can be made: the caller holds no result
CanQuery == query = NoQuery

\* get_filtered_data that keeps only the selected rows in the table
GetFilteredDataKeepingSelection(args) ==
    /\ CanQuery
    /\ \E s \in args.start_dates, e \in args.end_dates,
          c \in args.vehicle_categories, m \in args.manufacturers, raised \in BOOLEAN :
         /\ query' = [op |-> "get_filtered_data", start_date |-> s, end_date |-> e,
                      vehicle_categories |-> c, manufacturers |-> m,
                      error |-> raised \/ ~TableExists]
         /\ result' = execute_query(TableExists /\ ~raised,
                                    get_filtered_data(store, s, e, c, m))
    /\ store' = result'
    /\ UNCHANGED <<df, catalog, pc, runs, loop, previous, kept>>

GetFilteredData(args) ==
    /\ CanQuery
    /\ \E s \in args.start_dates, e \in args.end_dates,
          c \in args.vehicle_categories, m \in args.manufacturers, raised \in BOOLEAN :
         /\ query' = [op |-> "get_filtered_data", start_date |-> s, end_date |-> e,
                      vehicle_categories |-> c, manufacturers |-> m,
                      error |-> raised \/ ~TableExists]
         /\ result' = execute_query(TableExists /\ ~raised,
                                    get_filtered_data(store, s, e, c, m))
    /\ UNCHANGED <<df, store, catalog, pc, runs, loop, previous, kept>>

GetMonthlyTrends(args) ==
    /\ CanQuery
    /\ \E s \in args.start_dates, e \in args.end_dates,
          c \in args.vehicle_categories, m \in args.manufacturers, raised \in BOOLEAN :
         /\ query' = [op |-> "get_monthly_trends", start_date |-> s, end_date |-> e,
                      vehicle_categories |-> c, manufacturers |-> m,
                      error |-> raised \/ ~TableExists]
         /\ result' = execute_query(TableExists /\ ~raised,
                                    get_monthly_trends(store, s, e, c, m))
    /\ UNCHANGED <<df, store, catalog, pc, runs, loop, previous, kept>>

GetGrowthLeaders(args) ==
    /\ CanQuery
    /\ \E s \in args.start_dates, e \in args.end_dates, t \in args.growth_type,
          raised \in BOOLEAN :
         /\ query' = [op |-> "get_growth_leaders", start_date |-> s, end_date |-> e,
                      growth_type |-> t, error |-> raised \/ ~TableExists]
         /\ result' = execute_query(TableExists /\ ~raised,
                                    get_growth_leaders(store, catalog, s, e, t))
    /\ UNCHANGED <<df, store, catalog, pc, runs, loop, previous, kept>>

GetMarketShareData(args) ==
    /\ CanQuery
    /\ \E s \in args.start_dates, e \in args.end_dates, c \in args.vehicle_category,
          raised \in BOOLEAN :
         /\ query' = [op |-> "get_market_share_data", start_date |-> s, end_date |-> e,
                      vehicle_category |-> c, error |-> raised \/ ~TableExists]
         /\ result' = execute_query(TableExists /\ ~raised,
                                    get_market_share_data(store, catalog, s, e, c))
    /\ UNCHANGED <<df, store, catalog, pc, runs, loop, previous, kept>>

GetCategorySummary(args) ==
    /\ CanQuery
    /\ \E s \in args.start_dates, e \in args.end_dates, raised \in BOOLEAN :
         /\ query' = [op |-> "get_category_summary", start_date |-> s, end_date |-> e,
                      error |-> raised \/ ~TableExists]
         /\ result' = execute_query(TableExists /\ ~raised,
                                    get_category_summary(store, catalog, s, e))
    /\ UNCHANGED <<df, store, catalog, pc, runs, loop, previous, kept>>

GetManufacturerSummary(args) ==
    /\ CanQuery
    /\ \E s \in args.start_dates, e \in args.end_dates,
          c \in {NoCategory} \cup args.vehicle_category, raised \in BOOLEAN :
         /\ query' = [op |-> "get_manufacturer_summary", start_date |-> s, end_date |-> e,
                      vehicle_category |-> c, error |-> raised \/ ~TableExists]
         /\ result' = execute_query(TableExists /\ ~raised,
                                    get_manufacturer_summary(store, catalog, s, e, c))
    /\ UNCHANGED <<df, store, catalog, pc, runs, loop, previous, kept>>

\* line 45 reads the clock twice; the wall clock can be set between the reads
GetDateRange(args) ==
    /\ CanQuery
    /\ \E first \in args.clock, second \in args.clock, raised \in BOOLEAN :
         /\ query' = [op |-> "get_date_range", error |-> raised \/ ~TableExists]
         /\ result' = get_date_range(TableExists /\ ~raised, store, first, second)
    /\ UNCHANGED <<df, store, catalog, pc, runs, loop, previous, kept>>

GetVehicleCategories ==
    /\ CanQuery
    /\ \E raised \in BOOLEAN :
         /\ query' = [op |-> "get_vehicle_categories", error |-> raised \/ ~TableExists]
         /\ result' = execute_query(TableExists /\ ~raised, get_vehicle_categories(store))
    /\ UNCHANGED <<df, store, catalog, pc, runs, loop, previous, kept>>

GetManufacturers(args) ==
    /\ CanQuery
    /\ \E c \in {NoCategory} \cup args.vehicle_category, raised \in BOOLEAN :
         /\ query' = [op |-> "get_manufacturers", vehicle_category |-> c,
                      error |-> raised \/ ~TableExists]
         /\ result' = execute_query(TableExists /\ ~raised, get_manufacturers(store, c))
    /\ UNCHANGED <<df, store, catalog, pc, runs, loop, previous, kept>>

\* execute_query(sql) called with a text of the caller's: the statement runs
\* on the file, unless it raises first (the database is locked, what it names
\* is missing); what the caller has put aside stays as it is
ExecuteQuery(args) ==
    LET Leaves(file) == store' = file.table /\ catalog' = file.schema
    IN /\ CanQuery
       /\ \E sql \in args.statements, raised \in BOOLEAN :
            /\ query' = [op |-> "execute_query", query |-> sql,
                         error |-> raised \/ ~TableExists \/ sql.verb # "SELECT COUNT"]
            /\ result' = Returned(sql, TableExists /\ ~raised, store)
            /\ Leaves(IF raised THEN [table |-> store, schema |-> catalog]
                      ELSE Executed(sql, store, catalog))
       /\ UNCHANGED <<df, pc, runs, loop, previous, kept>>

\* the caller puts aside the answer of one of the queries, when it holds none
KeepResult ==
    /\ query # NoQuery
    /\ query.op # "execute_query"
    /\ ~query.error
    /\ kept = <<>>
    /\ kept' = <<query, result, catalog>>
    /\ query' = NoQuery
    /\ result' = <<>>
    /\ UNCHANGED <<df, store, catalog, pc, runs, loop, previous>>

\* the caller is done with what a query returned
DropResult ==
    /\ query # NoQuery
    /\ query' = NoQuery
    /\ result' = <<>>
    /\ UNCHANGED <<df, store, catalog, pc, runs, loop, previous, kept>>

Init ==
    /\ df = <<>>
    /\ pc = "start"
    /\ store = <<>>
    /\ catalog = {}
    /\ query = NoQuery
    /\ result = <<>>
    /\ runs = 0
    /\ loop = NoLoop
    /\ previous = <<>>
    /\ kept = <<>>

Next ==
    \/ Generate
    \/ GenerateRaises
    \/ CalculateGrowthMetrics
    \/ CalculateGrowthMetricsRaises
    \/ DropTable
    \/ CreateTable
    \/ InsertRows
    \/ CreateIndex
    \/ SaveToDatabaseRaises
    \/ ToCsv
    \/ ToCsvRaises
    \/ GetFilteredData(RunArgs)
    \/ GetMonthlyTrends(RunArgs)
    \/ GetGrowthLeaders(RunArgs)
    \/ GetMarketShareData(RunArgs)
    \/ GetCategorySummary(RunArgs)
    \/ GetManufacturerSummary(RunArgs)
    \/ GetDateRange(RunArgs)
    \/ GetVehicleCategories
    \/ GetManufacturers(RunArgs)
    \/ ExecuteQuery(RunArgs)
    \/ DropResult

\* runs of scrape_and_process_data, and DatabaseManager calls between their steps
Spec == Init /\ [][Next]_vars

\* the database file DatabaseManager opens: for each frame of QueryFrames the
\* file save_to_database writes for calculate_growth_metrics of the frame, and
\* a file without the table
InitQuery ==
    /\ \/ \E f \in QueryFrames :
            /\ df = calculate_growth_metrics(f)
            /\ store = save_to_database(calculate_growth_metrics(f))
            /\ catalog = Schema
            /\ pc = "done"
       \/ /\ df = <<>>
          /\ store = <<>>
          /\ catalog = {}
          /\ pc = "start"
    /\ query = NoQuery
    /\ result = <<>>
    /\ runs = 0
    /\ loop = NoLoop
    /\ previous = <<>>
    /\ kept = <<>>

NextQuery ==
    \/ GetFilteredData(QueryArgs)
    \/ GetMonthlyTrends(QueryArgs)
    \/ GetGrowthLeaders(QueryArgs)
    \/ GetMarketShareData(QueryArgs)
    \/ GetCategorySummary(QueryArgs)
    \/ GetManufacturerSummary(QueryArgs)
    \/ GetDateRange(QueryArgs)
    \/ GetVehicleCategories
    \/ GetManufacturers(QueryArgs)
    \/ ExecuteQuery(QueryArgs)
    \/ DropResult

\* DatabaseManager calls on a database file that no run is writing
SpecQuery == InitQuery /\ [][NextQuery]_vars

NextSession ==
    \/ GetFilteredData(SessionArgs)
    \/ GetMonthlyTrends(SessionArgs)
    \/ GetGrowthLeaders(SessionArgs)
    \/ GetMarketShareData(SessionArgs)
    \/ GetCategorySummary(SessionArgs)
    \/ GetManufacturerSummary(SessionArgs)
    \/ GetDateRange(SessionArgs)
    \/ GetVehicleCategories
    \/ GetManufacturers(SessionArgs)
    \/ ExecuteQuery(SessionArgs)
    \/ KeepResult
    \/ DropResult

\* the files of the frames in which groups have equal totals: WideFrame and
\* the frames of QoqLag + 1 months of '2W' 'Bajaj' and of '3W' 'Bajaj'
InitSession ==
    /\ InitQuery
    /\ Len(df) \in {2 * (QoqLag + 1), Len(WideFrame)}

\* a session of DatabaseManager calls in which the caller keeps an answer
SpecSession == InitSession /\ [][NextSession]_vars

\* calculate_growth_metrics applied to every frame of GrowthFrames
InitGrowth ==
    /\ df \in GrowthFrames
    /\ pc = "generated"
    /\ store = <<>>
    /\ catalog = {}
    /\ query = NoQuery
    /\ result = <<>>
    /\ runs = 0
    /\ loop = NoLoop
    /\ previous = <<>>
    /\ kept = <<>>

NextGrowth == CalculateGrowthMetrics

SpecGrowth == InitGrowth /\ [][NextGrowth]_vars

\* the loop variables at one (date, category, manufacturer) of the three loops
Loops ==
    UNION {{[date |-> k, category |-> categories[c], manufacturer |-> i] :
               k \in 0..(NumPeriods - 1), i \in 1..Len(manufacturers_of(categories[c]))} :
             c \in 1..Len(categories)}

\* one pass of the innermost loop body in a run of the generator; previous is
\* what the run before produced at the same place
GenerateRow ==
    /\ runs < MaxRuns
    /\ \E random_factor \in random_factors :
         df' = <<Record(MonthEnd(loop.date), loop.category,
                        manufacturers_of(loop.category)[loop.manufacturer], random_factor)>>
    /\ previous' = df
    /\ runs' = runs + 1
    /\ UNCHANGED <<store, catalog, pc, query, result, loop, kept>>

InitRow ==
    /\ loop \in Loops
    /\ df = <<>>
    /\ previous = <<>>
    /\ kept = <<>>
    /\ runs = 0
    /\ pc = "start"
    /\ store = <<>>
    /\ catalog = {}
    /\ query = NoQuery
    /\ result = <<>>

NextRow == GenerateRow

\* runs of the generator, seen at one record
SpecRow == InitRow /\ [][NextRow]_vars

\* the innermost loop at one (date, category): a record is appended for the
\* next manufacturer of the category
AppendRecord ==
    /\ loop.manufacturer <= Len(manufacturers_of(loop.category))
    /\ \E random_factor \in block_factors :
         df' = Append(df, Record(MonthEnd(loop.date), loop.category,
                                 manufacturers_of(loop.category)[loop.manufacturer],
                                 random_factor))
    /\ loop' = [loop EXCEPT !.manufacturer = @ + 1]
    /\ UNCHANGED <<store, catalog, pc, query, result, runs, previous, kept>>

InitGen ==
    /\ loop \in {l \in Loops : l.manufacturer = 1}
    /\ df = <<>>
    /\ previous = <<>>
    /\ kept = <<>>
    /\ runs = 0
    /\ pc = "start"
    /\ store = <<>>
    /\ catalog = {}
    /\ query = NoQuery
    /\ result = <<>>

NextGen == AppendRecord

\* the records of one (date, category) of a run of the generator
SpecGen == InitGen /\ [][NextGen]_vars

(***************************************************************************)
(* Properties of calculate_growth_metrics (checked under SpecGrowth).      *)
(***************************************************************************)
RowsOf(f) == {f[i] : i \in 1..Len(f)}

PartitionOf(r) == <<r.vehicle_category, r.manufacturer>>

PartitionsOf(f) == {PartitionOf(r) : r \in RowsOf(f)}

Restrict(f, key) == SelectSeq(f, LAMBDA r : PartitionOf(r) = key)

\* the rows of r's partition lag calendar months before r
EarlierBy(f, r, lag) ==
    {x \in RowsOf(f) : /\ PartitionOf(x) = PartitionOf(r)
                       /\ MonthIndex(x.date) = MonthIndex(r.date) - lag}

\* the 1-based position of r in its partition ordered by period
PositionOf(f, r) ==
    Cardinality({x \in RowsOf(f) : /\ PartitionOf(x) = PartitionOf(r)
                                   /\ ~DateLess(r.date, x.date)})

\* the partition of key has one row per month, no month missing
IsComplete(f, key) ==
    LET months == {MonthIndex(f[i].date) : i \in {j \in 1..Len(f) : PartitionOf(f[j]) = key}}
    IN /\ Cardinality(months) = Len(Restrict(f, key))
       /\ \A m \in months : \A k \in months : \A x \in m..k : x \in months

Absent(g) == g.k = "nan"

\* g is (c - p) / p * 100 to within half a hundredth (p > 0)
IsPercentChange(g, c, p) ==
    /\ g.k = "num"
    /\ 2 * (g.v * p - (c - p) * 10000) <= p
    /\ 2 * ((c - p) * 10000 - g.v * p) <= p

Raw(r) == [date |-> r.date, year |-> r.year, month |-> r.month, quarter |-> r.quarter,
           vehicle_category |-> r.vehicle_category,
           manufacturer |-> r.manufacturer, registrations |-> r.registrations]

\* C4: a growth field is present iff the partition has a record exactly 12 (3)
\* calendar months earlier, and is then the percent change against that
\* record's count (a zero count there is the case of C5 and not judged here).
C4_CalendarLookback ==
    pc = "derived" =>
      \A r \in RowsOf(df) :
        /\ EarlierBy(df, r, 12) = {} => Absent(r.yoy_growth)
        /\ \A x \in EarlierBy(df, r, 12) :
             x.registrations > 0 => IsPercentChange(r.yoy_growth, r.registrations, x.registrations)
        /\ EarlierBy(df, r, 3) = {} => Absent(r.qoq_growth)
        /\ \A x \in EarlierBy(df, r, 3) :
             x.registrations > 0 => IsPercentChange(r.qoq_growth, r.registrations, x.registrations)

\* C5: when the count the growth is taken against is exactly 0, the growth
\* field is absent (never infinite).
C5_ZeroLookbackAbsent ==
    pc = "derived" =>
      \A r \in RowsOf(df) :
        /\ r.prev_year_registrations = Num(0) => Absent(r.yoy_growth)
        /\ r.prev_quarter_registrations = Num(0) => Absent(r.qoq_growth)

\* C6: in every partition ordered by period, yoy_growth is absent in the
\* first 12 records and qoq_growth is absent in the first 3.
C6_GrowthAbsenceLaw ==
    pc = "derived" =>
      \A r \in RowsOf(df) :
        /\ PositionOf(df, r) <= 12 => Absent(r.yoy_growth)
        /\ PositionOf(df, r) <= 3 => Absent(r.qoq_growth)

\* a partition with a 13th record that has both growth fields, after 12 without yoy_growth
C6_Witness ==
    /\ pc = "derived"
    /\ \E r \in RowsOf(df) :
         /\ PositionOf(df, r) = 13
         /\ r.yoy_growth.k = "num"
         /\ r.qoq_growth.k = "num"
         /\ \A x \in RowsOf(Restrict(df, PartitionOf(r))) :
              PositionOf(df, x) <= 12 => Absent(x.yoy_growth)

GrowthValueOK(in, out) ==
    /\ Len(out) = Len(in)
    /\ \A x \in RowsOf(in) :
         Cardinality({i \in 1..Len(in) : in[i] = x})
           = Cardinality({i \in 1..Len(out) : Raw(out[i]) = x})
    /\ \A r \in RowsOf(out) :
         IsComplete(in, PartitionOf(r)) =>
           /\ \A x \in EarlierBy(out, r, 12) :
                x.registrations > 0 =>
                  IsPercentChange(r.yoy_growth, r.registrations, x.registrations)
           /\ \A x \in EarlierBy(out, r, 3) :
                x.registrations > 0 =>
                  IsPercentChange(r.qoq_growth, r.registrations, x.registrations)

\* C7: the output has one record per input record, and in a complete monthly
\* partition a record at position i >= 12 (3) with count[i-12] (count[i-3]) > 0
\* has yoy_growth (qoq_growth) = (count[i] - count[i-lag]) / count[i-lag] * 100
\* rounded to 2 decimals: a value of 2 decimals nearest to it, either one when
\* it lies midway between two.
C7_GrowthValue == [][CalculateGrowthMetrics => GrowthValueOK(df, df')]_vars

\* a complete partition with a nonzero yoy_growth and a qoq_growth whose exact
\* value is a tie of the second decimal (160 to 183 is 14.375 percent)
C7_Witness ==
    /\ pc = "derived"
    /\ \E r \in RowsOf(df) :
         /\ IsComplete(df, PartitionOf(r))
         /\ PositionOf(df, r) >= 13
         /\ r.yoy_growth.k = "num" /\ r.yoy_growth.v # 0
         /\ \E q \in RowsOf(df) : \E x \in EarlierBy(df, q, 3) :
              /\ PartitionOf(q) = PartitionOf(r)
              /\ x.registrations > 0
              /\ q.qoq_growth.k = "num"
              /\ \/ 2 * (q.qoq_growth.v * x.registrations
                           - (q.registrations - x.registrations) * 10000) = x.registrations
                 \/ 2 * ((q.registrations - x.registrations) * 10000
                           - q.qoq_growth.v * x.registrations) = x.registrations

IsolatedOK(in, out) ==
    \A key \in PartitionsOf(in) :
      /\ Restrict(out, key) = calculate_growth_metrics(Restrict(in, key))
      /\ Restrict(out, key) = calculate_growth_metrics(Reverse(Restrict(in, key)))

\* C8: the growth fields of a partition's records are those computed from the
\* partition's rows alone, in any row order, whatever the other partitions hold.
C8_PartitionIsolation == [][CalculateGrowthMetrics => IsolatedOK(df, df')]_vars

\* 'Bajaj' in two categories, both partitions long enough to have a qoq_growth
C8_Witness ==
    /\ pc = "derived"
    /\ \E r \in RowsOf(df) : \E x \in RowsOf(df) :
         /\ r.manufacturer = x.manufacturer
         /\ r.vehicle_category # x.vehicle_category
         /\ r.qoq_growth.k = "num"
         /\ x.qoq_growth.k = "num"
         /\ r.registrations # x.registrations

(***************************************************************************)
(* Properties of the DatabaseManager queries (checked under Spec).  The     *)
(* period of a stored record is read back from its date text.              *)
(***************************************************************************)
Stored == 1..Len(store)

\* start <= period of the i-th stored record <= end, on dates
InPeriodRange(i, start_date, end_date) ==
    /\ ~DateLess(to_datetime(store[i].date), start_date)
    /\ ~DateLess(end_date, to_datetime(store[i].date))

RECURSIVE SumOver(_, _)
\* the sum of f over a finite set
SumOver(S, f) ==
    IF S = {} THEN 0
    ELSE LET x == CHOOSE y \in S : TRUE
         IN f[x] + SumOver(S \ {x}, f)

\* C1: get_filtered_data and get_monthly_trends called with an empty list of
\* categories or of manufacturers return no rows.
C1_EmptyFilterYieldsNothing ==
    (/\ query.op \in {"get_filtered_data", "get_monthly_trends"}
     /\ \/ query.vehicle_categories = List(<<>>)
        \/ query.manufacturers = List(<<>>))
      => result = <<>>

\* C2: get_filtered_data(start, end), when the query does not fail, returns a
\* stored record iff start <= record period <= end, both bounds included.
C2_InclusiveRange ==
    (/\ query.op = "get_filtered_data"
     /\ ~query.error
     /\ query.vehicle_categories = None
     /\ query.manufacturers = None)
      => \A i \in Stored :
           store[i] \in RowsOf(result)
             <=> InPeriodRange(i, query.start_date, query.end_date)

\* C3: get_filtered_data(P, P, [C], [E]), when the query does not fail,
\* returns exactly the stored records with period in the range and category C
\* and manufacturer E.
C3_FiltersComposeAnd ==
    (/\ query.op = "get_filtered_data"
     /\ ~query.error
     /\ query.start_date = query.end_date
     /\ query.vehicle_categories.some /\ Len(query.vehicle_categories.items) = 1
     /\ query.manufacturers.some /\ Len(query.manufacturers.items) = 1)
      => RowsOf(result) =
           {store[i] : i \in {j \in Stored :
              /\ InPeriodRange(j, query.start_date, query.end_date)
              /\ store[j].vehicle_category = query.vehicle_categories.items[1]
              /\ store[j].manufacturer = query.manufacturers.items[1]}}

\* C9: when the category has a nonzero count in the range and the query does
\* not fail, every row of get_market_share_data has share = entity total /
\* category total * 100 rounded to 2 decimals, and the shares add up to 100
\* within 0.1.
C9_MarketShareSumsTo100 ==
    (query.op = "get_market_share_data" /\ ~query.error) =>
      LET inRange == {i \in Stored :
                        /\ InPeriodRange(i, query.start_date, query.end_date)
                        /\ store[i].vehicle_category = query.vehicle_category}
          count == [i \in Stored |-> store[i].registrations]
          total == SumOver(inRange, count)
          entityTotal(e) == SumOver({i \in inRange : store[i].manufacturer = e}, count)
          shares == [g \in 1..Len(result) |-> result[g].market_share.v]
          sum == SumOver(1..Len(result), shares)
      IN total > 0 =>
           /\ \A g \in 1..Len(result) :
                /\ result[g].market_share.k = "num"
                /\ 2 * (result[g].market_share.v * total
                          - entityTotal(result[g].manufacturer) * 10000) <= total
                /\ 2 * (entityTotal(result[g].manufacturer) * 10000
                          - result[g].market_share.v * total) <= total
           /\ sum >= 10000 - 10
           /\ sum <= 10000 + 10

\* the (manufacturer, vehicle_category) groups of the store
StoredGroups == {<<store[i].manufacturer, store[i].vehicle_category>> : i \in Stored}

\* the stored records of a group in the queried range
GroupInRange(g) ==
    {i \in Stored : /\ store[i].manufacturer = g[1]
                    /\ store[i].vehicle_category = g[2]
                    /\ InPeriodRange(i, query.start_date, query.end_date)}

MetricOf(i) ==
    IF query.growth_type = "yoy" THEN store[i].yoy_growth ELSE store[i].qoq_growth

\* the groups that qualify for get_growth_leaders: the total count over all the
\* group's records in the range exceeds the floor, and at least one of these
\* records has a value of the chosen metric
Qualifying ==
    {g \in StoredGroups :
       /\ SumOver(GroupInRange(g), [i \in Stored |-> store[i].registrations]) > 1000
       /\ \E i \in GroupInRange(g) : MetricOf(i).k # "null"}

LeaderGroups == {<<x.manufacturer, x.vehicle_category>> : x \in RowsOf(result)}

\* the mean of the chosen metric over the records of a group in the range
GroupAverage(g) ==
    LET rows == SelectSeq(store, LAMBDA r :
                  /\ r.manufacturer = g[1]
                  /\ r.vehicle_category = g[2]
                  /\ ~DateLess(to_datetime(r.date), query.start_date)
                  /\ ~DateLess(query.end_date, to_datetime(r.date)))
    IN Avg(Column(ScanOrder(rows, catalog, FALSE),
                  LAMBDA r : IF query.growth_type = "yoy" THEN r.yoy_growth
                             ELSE r.qoq_growth))

\* C11: get_growth_leaders, when the query does not fail, returns at most 10
\* rows, in descending order of
\* avg_growth, which are the qualifying groups of highest avg_growth: no group
\* without a value of the metric in the range is returned, a qualifying group is
\* left out only when 10 rows are returned, and then none of the returned rows
\* has a lower avg_growth than the mean of the group left out.
C11_GrowthLeadersSelection ==
    (query.op = "get_growth_leaders" /\ ~query.error) =>
      /\ Len(result) <= 10
      /\ \A p \in 1..Len(result) : \A q \in 1..Len(result) :
           p < q => ~AvgLess(result[p].avg_growth, result[q].avg_growth)
      /\ \A g \in LeaderGroups : \E i \in GroupInRange(g) : MetricOf(i).k # "null"
      /\ \A g \in Qualifying \ LeaderGroups :
           /\ Len(result) = 10
           /\ \A x \in RowsOf(result) : ~AvgLess(x.avg_growth, GroupAverage(g))

\* the stored records a summary or trends query selects
Selected(i) ==
    /\ DateBetween(store[i], query.start_date, query.end_date)
    /\ query.op = "get_manufacturer_summary" =>
         (query.vehicle_category # NoCategory
            => store[i].vehicle_category = query.vehicle_category)
    /\ query.op = "get_monthly_trends" =>
         /\ Truthy(query.vehicle_categories)
              => store[i].vehicle_category \in Items(query.vehicle_categories)
         /\ Truthy(query.manufacturers)
              => store[i].manufacturer \in Items(query.manufacturers)

\* the selected records that make the group of the output row x
GroupOfRow(x) ==
    {i \in Stored :
       /\ Selected(i)
       /\ store[i].vehicle_category = x.vehicle_category
       /\ query.op # "get_category_summary" => store[i].manufacturer = x.manufacturer
       /\ query.op = "get_monthly_trends" => store[i].date = x.date}

\* |x|
Abs(x) == IF x < 0 THEN 0 - x ELSE x

\* the double avg is sum / (100 * n) to within 2^-40 of total / (100 * n), for
\* sum and total below 2^31 and total the sum of the magnitudes of the addends
\* (the doubles of the sum carry 53 bits)
IsQuotient(avg, sum, total, n) ==
    LET scaled == MulNat(avg.m, FromInt(100 * n))
        exact == ShiftLeft(FromInt(Abs(sum)), 0 - avg.e)
        gap == IF LessEqNat(scaled, exact) THEN SubNat(exact, scaled)
               ELSE SubNat(scaled, exact)
    IN /\ avg.e \in -80..0
       /\ sum # 0 => avg.neg = (sum < 0)
       /\ LessEqNat(gap, ShiftRight(ShiftLeft(FromInt(total), 0 - avg.e), 40))

\* avg is the mean of the values of growth (a column of the frame that was
\* saved) that are not absent, over the records of S
IsMeanOfPresent(avg, S, growth) ==
    LET present == {i \in S : growth[i].k # "nan"}
    IN IF present = {} THEN avg.k = "null"
       ELSE IF \E i \in present : growth[i].k = "inf" THEN avg.k = "inf"
       ELSE /\ avg.k = "num"
            /\ IsQuotient(avg, SumOver(present, [i \in Stored |-> growth[i].v]),
                          SumOver(present, [i \in Stored |-> Abs(growth[i].v)]),
                          Cardinality(present))

SummaryOps == {"get_category_summary", "get_manufacturer_summary", "get_monthly_trends"}

AvgYoyOf(x) == IF query.op = "get_monthly_trends" THEN x.yoy_growth ELSE x.avg_yoy_growth

AvgQoqOf(x) == IF query.op = "get_monthly_trends" THEN x.qoq_growth ELSE x.avg_qoq_growth

TotalOf(x) == IF query.op = "get_monthly_trends" THEN x.registrations ELSE x.total_registrations

\* C12: in get_category_summary, get_manufacturer_summary and
\* get_monthly_trends, the average yoy and qoq growth of a group are the sum of
\* the group's growth values that are not absent divided by their number (no
\* value when all are absent), and the total is the sum of the counts of all the
\* group's records, those with an absent growth included.
C12_AveragesExcludeAbsent ==
    (pc = "done" /\ query.op \in SummaryOps) =>
      \A x \in RowsOf(result) :
        /\ IsMeanOfPresent(AvgYoyOf(x), GroupOfRow(x), [i \in Stored |-> df[i].yoy_growth])
        /\ IsMeanOfPresent(AvgQoqOf(x), GroupOfRow(x), [i \in Stored |-> df[i].qoq_growth])
        /\ TotalOf(x) = SumOver(GroupOfRow(x), [i \in Stored |-> df[i].registrations])

\* a summary row of a group with absent and present qoq growth, whose average
\* is not what counting the absent values as 0 would give
C12_Witness ==
    /\ pc = "done"
    /\ query.op \in {"get_category_summary", "get_manufacturer_summary"}
    /\ \E x \in RowsOf(result) :
         LET S == GroupOfRow(x)
         IN /\ \E i \in S : df[i].qoq_growth.k = "nan"
            /\ \E i \in S : df[i].qoq_growth.k = "num"
            /\ x.avg_qoq_growth.k = "num"
            /\ ~IsZero(x.avg_qoq_growth.m)
            /\ x.total_registrations > 0

\* C19: the total_registrations of a row of get_growth_leaders is the
\* total_registrations get_manufacturer_summary reports for the same group and
\* range, and a group whose summary total exceeds the floor and that has a value
\* of the metric among the selected records is returned unless 10 rows are.
C19_LeadersTotalIsSummaryTotal ==
    (query.op = "get_growth_leaders" /\ ~query.error) =>
      LET summary == get_manufacturer_summary(store, catalog, query.start_date,
                                              query.end_date, NoCategory)
          valued(y) == \E i \in Stored :
                         /\ DateBetween(store[i], query.start_date, query.end_date)
                         /\ store[i].manufacturer = y.manufacturer
                         /\ store[i].vehicle_category = y.vehicle_category
                         /\ MetricOf(i).k # "null"
      IN \A y \in RowsOf(summary) :
           /\ \A x \in RowsOf(result) :
                (x.manufacturer = y.manufacturer /\ x.vehicle_category = y.vehicle_category)
                  => x.total_registrations = y.total_registrations
           /\ (y.total_registrations > 1000 /\ valued(y) /\ Len(result) < 10)
                => <<y.manufacturer, y.vehicle_category>> \in LeaderGroups

\* the nine query operations of DatabaseManager
QueryOperations ==
    {"get_filtered_data", "get_category_summary", "get_manufacturer_summary",
     "get_monthly_trends", "get_growth_leaders", "get_market_share_data",
     "get_date_range", "get_vehicle_categories", "get_manufacturers"}

\* what a failed call returns: an empty DataFrame, and for get_date_range
\* the year up to the clock
Failure(q) ==
    IF q.op = "get_date_range"
    THEN {<<DaysBefore(first, FallbackDays), second>> : first \in Clock, second \in Clock}
    ELSE {<<>>}

\* C16: every call of one of the nine queries leaves the table and its
\* indexes as they were, also when the query fails, and a failed call returns
\* the empty answer; whenever the caller repeats the call whose answer it
\* kept, after any calls of the nine queries, failed ones among them, on a
\* file that has the schema objects it had when the answer was given (a DROP
\* or CREATE the caller sent through execute_query in between, which is none
\* of the nine queries, has been undone or was never sent), and the call does
\* not fail, it returns the answer that was kept.
C16_StoreReadOnly ==
    /\ [][(query = NoQuery /\ query'.op \in QueryOperations) =>
            /\ store' = store
            /\ catalog' = catalog
            /\ query'.error => result' \in Failure(query')]_vars
    /\ []((kept # <<>> /\ query = kept[1] /\ catalog = kept[3]) => result = kept[2])

\* the call whose answer was kept is made again, on a file that has lost an
\* index, and answered with more than one row
C16_Witness ==
    /\ kept # <<>>
    /\ query = kept[1]
    /\ catalog = kept[3]
    /\ Len(result) > 1
    /\ catalog # Schema

\* (period, category, entity) of a stored record
KeyOf(r) == <<r.date, r.vehicle_category, r.manufacturer>>

\* the positions of a run after the INSERT of to_sql
AfterInsert == {"inserted", "idx_date", "idx_category", "saved", "done"}

\* C17: no two stored records have the same (period, category, entity), at
\* any time, and from the INSERT of a run on, the table, while it is there,
\* holds exactly the records of that run's batch, one for each of its keys.
C17_RecordUniqueness ==
    /\ Cardinality({KeyOf(store[i]) : i \in Stored}) = Len(store)
    /\ (pc \in AfterInsert /\ TableExists) =>
         /\ Len(store) = Len(df)
         /\ {KeyOf(store[i]) : i \in Stored} = {KeyOf(StoreRow(df[i])) : i \in 1..Len(df)}

\* a second run has saved over the batch of the first
C17_Witness ==
    /\ runs >= 2
    /\ pc = "done"
    /\ store # <<>>

\* the keys of a batch of the generator: every month end and roster pair
BatchKeys ==
    {<<TimestampText(MonthEnd(k)), Roster[j][1], Roster[j][2]>> :
       k \in 0..(NumPeriods - 1), j \in 1..Len(Roster)}

\* a complete batch with growth fields: one record for each key of the
\* generator, with the yoy fields from the 13th month on and the qoq fields
\* from the 4th (the generator gives no count of 0)
IsLoadedBatch(table) ==
    /\ Len(table) = Cardinality(BatchKeys)
    /\ {KeyOf(table[i]) : i \in 1..Len(table)} = BatchKeys
    /\ \A i \in 1..Len(table) :
         /\ table[i].yoy_growth.k = "num" <=> MonthIndex(to_datetime(table[i].date)) >= YoyLag
         /\ table[i].prev_year_registrations.k = table[i].yoy_growth.k
         /\ table[i].qoq_growth.k = "num" <=> MonthIndex(to_datetime(table[i].date)) >= QoqLag
         /\ table[i].prev_quarter_registrations.k = table[i].qoq_growth.k

\* C18: the phases of a run follow in the order generate, derive, save; a run
\* that fails in generation or derivation ends without writing the table; the
\* table is missing or empty (not loaded) or holds a complete batch with
\* growth fields, at all times, and the only rows a run ever writes are those
\* of the derived frame, all at once.
C18_BatchAtomicity ==
    /\ [](store = <<>> \/ IsLoadedBatch(store))
    /\ [][pc' # pc =>
            /\ pc' = "generated" => pc \in {"start", "done", "failed"}
            /\ pc' = "derived" => (pc = "generated" /\ df' = calculate_growth_metrics(df))
            /\ pc' = "dropped" => pc = "derived"
            /\ pc' = "created" => pc \in {"derived", "dropped"}
            /\ pc' = "inserted" => pc = "created"
            /\ pc' = "idx_date" => pc = "inserted"
            /\ pc' = "idx_category" => pc = "idx_date"
            /\ pc' = "saved" => pc = "idx_category"
            /\ pc' = "done" => pc = "saved"
            /\ pc \in {"start", "done", "failed", "generated"} =>
                 (store' = store /\ catalog' = catalog)
            /\ store' # store =>
                 \/ store' = <<>> /\ pc \in {"derived", "dropped"}
                 \/ store' = save_to_database(df) /\ pc = "created"]_vars

\* a run failed in generation or derivation after an earlier run had saved,
\* and the table still holds the complete batch
C18_Witness ==
    /\ pc = "failed"
    /\ runs >= 2
    /\ df = <<>>
    /\ catalog = Schema
    /\ IsLoadedBatch(store)

(***************************************************************************)
(* Properties of generate_synthetic_data (checked under SpecRow, and under *)
(* SpecGen where all the manufacturers of a category are needed).          *)
(***************************************************************************)
\* C13: two runs of the generator in the same configuration give every
\* (date, category, manufacturer) the same count.
C13_GenerationDeterministic ==
    previous # <<>> => df = previous

\* C14: every record of the generator has an integer count that is not
\* negative, at every date, category, manufacturer and random factor of the
\* band.
C14_CountNonNegative ==
    \A r \in RowsOf(df) : r.registrations \in Nat

\* the smallest count of the model's runs: the last manufacturer of '3W' in
\* July 2020 at the low end of the band
C14_Witness ==
    /\ df # <<>>
    /\ df[1].vehicle_category = "3W"
    /\ df[1].manufacturer = "Atul Auto"
    /\ df[1].year = 2020 /\ df[1].month = 7
    /\ df[1].registrations = 510

\* the (date, category) of the loop has all its records
BlockComplete ==
    /\ loop # NoLoop
    /\ Len(df) = Len(manufacturers_of(loop.category))

\* the counts of the records of df, added up
TotalCount == SumOver(1..Len(df), [i \in 1..Len(df) |-> df[i].registrations])

\* 10^11
Scale == MulNat(FromInt(100000), FromInt(1000000))

\* C15: for the records of one date and category, the sum of the counts over
\* the base volume of the category is at least 0.8 * 1.0 * 0.6 * 0.85 and at
\* most 1.3 * 1.08^4 * 1.0 * 1.15 (both sides are multiplied by 10^11 and by
\* the base volume).
C15_ShareConservation ==
    BlockComplete =>
      LET total == MulNat(FromInt(TotalCount), Scale)
          base == FromInt(base_registrations(loop.category))
          low == MulNat(FromInt(8 * 6 * 85), FromInt(10000000))
          high == MulNat(FromInt(13 * 115), FromInt(108 * 108 * 108 * 108))
      IN /\ LessEqNat(MulNat(base, low), total)
         /\ LessEqNat(total, MulNat(base, high))

====
